---- MODULE Spec2Model ----
(***************************************************************************)
(* Lead discovery and enrichment back end of ssai_leads.                   *)
(*                                                                         *)
(* The repository holds two revisions of the Express server: the file      *)
(* lead-scraper-backend/server.js, and the full listing printed in         *)
(* ENGINEERING_DOCUMENTATION.md, which adds the Apollo / PDL / Hunter /    *)
(* Numverify / Yelp steps to /api/verify and rewrites the single-AI        *)
(* branches of verifyLeadWithAI.  Both are modelled; the variable          *)
(* `revision` says which one serves the request.                           *)
(*                                                                         *)
(* A JavaScript object is a function from its own keys to values.  Keys    *)
(* that hold strings hold the tokens Undefined / Null for the JavaScript   *)
(* values undefined / null, so that `a || b`, `{...a, ...b}` and key       *)
(* presence behave as in the source.                                       *)
(***************************************************************************)
EXTENDS Integers, Sequences, FiniteSets, TLC

VARIABLES
    revision,       \* which revision of the server handles the request
    pc,             \* position of the handler
    lead,           \* req.body.lead (or req.body of /api/enrich-manual)
    aiProvider,     \* req.body.aiProvider
    enrichedLead,   \* the working lead of /api/verify
    rets,           \* values the awaited adapters settled with, in order
    inflight,       \* adapters whose promise is pending
    calls,          \* adapters invoked so far, in order
    claudeResult,   \* verifyLeadWithAI: claudeResult
    chatGPTResult,  \* verifyLeadWithAI: chatGPTResult
    response,       \* what res.json / res.status(..).json sent
    searchMethod,   \* /api/enrich-manual: searchMethod
    scrapedResults, \* /api/enrich-manual: scrapedResults
    maxLeads,       \* /api/scrape-area: req.body.maxLeads
    polygons,       \* /api/scrape-area: number of polygons in area.polygons
    quotas,         \* /api/scrape-area: maxLeads argument of each scrapeGoogleMaps call
    allResults,     \* /api/scrape-area: allResults
    args,           \* /api/verify: the argument of each adapter call, in order
    apiKey,         \* scrapeGoogleMaps: whether GOOGLE_PLACES_API_KEY is set
    allPlaces,      \* scrapeGoogleMaps: allPlaces
    nextPageToken,  \* scrapeGoogleMaps: nextPageToken
    pageCount,      \* scrapeGoogleMaps: pageCount
    placeIndex,     \* scrapeGoogleMaps: places handled by the details loop
    leadResults,    \* scrapeGoogleMaps: results
    log,            \* requests sent, answers received and delays awaited, in order
    scrapedLeads,   \* the module-level store scrapedLeads
    cleanFn,        \* the normalizer under test
    cleanInput,     \* its argument
    cleanOutput,    \* its result
    cleanAgain,     \* its result on that result
    apolloFilters,  \* /api/scrape: apolloFilters
    searchSource,   \* /api/scrape: searchSource
    scrapedData,    \* App: the state scrapedData
    leads,          \* App: the state leads
    isProcessing,   \* App: the state isProcessing
    closure         \* App: what the running verification handler closed over

vars == <<revision, pc, lead, aiProvider, enrichedLead, rets, inflight, calls,
          claudeResult, chatGPTResult, response, searchMethod, scrapedResults,
          maxLeads, polygons, quotas, allResults, args, apiKey, allPlaces,
          nextPageToken, pageCount, placeIndex, leadResults, log, scrapedLeads,
          cleanFn, cleanInput, cleanOutput, cleanAgain, apolloFilters, searchSource,
          scrapedData, leads, isProcessing, closure>>

verifyVars == <<revision, lead, aiProvider, enrichedLead, rets, inflight, calls,
                claudeResult, chatGPTResult, response>>
manualVars == <<searchMethod, scrapedResults>>
areaVars == <<maxLeads, polygons, quotas, allResults>>
scrapeVars == <<apiKey, allPlaces, nextPageToken, pageCount, placeIndex, leadResults, log>>
storeVars == <<scrapedLeads>>
normalizerVars == <<cleanFn, cleanInput, cleanOutput, cleanAgain>>
organizationVars == <<apolloFilters, searchSource>>
appVars == <<scrapedData, leads, isProcessing, closure>>

----------------------------------------------------------------------------
(* JavaScript values                                                       *)

Undefined == "<undefined>"
Null == "<null>"
NA == "N/A"

\* ToBoolean on the string-valued keys: undefined, null and '' are falsy
Truthy(v) == v \notin {Undefined, Null, ""}

\* a || b
Or(a, b) == IF Truthy(a) THEN a ELSE b

\* o.k, undefined when o has no own key k
Get(o, k) == IF k \in DOMAIN o THEN o[k] ELSE Undefined

\* { ...a, ...b }: every own key of b wins, also one holding undefined or null
Spread(a, b) ==
    [k \in (DOMAIN a) \cup (DOMAIN b) |-> IF k \in DOMAIN b THEN b[k] ELSE a[k]]

\* the value null where an object is expected (an adapter's "no contribution")
NullResult == [isNull |-> TRUE]
IsNull(o) == "isNull" \in DOMAIN o

\* a promise that rejects instead of resolving
Thrown == [thrown |-> TRUE]
IsThrown(v) == "thrown" \in DOMAIN v

\* o.k = v for a key holding a boolean
Flag(o, k) == k \in DOMAIN o /\ o[k] = TRUE

\* String.prototype.trim on the strings of the model
Trim(s) ==
    CASE s = "  " -> ""
      [] s = " Bob Builder " -> "Bob Builder"
      [] s = " Acme " -> "Acme"
      [] OTHER -> s

\* String.prototype.toLowerCase on the company names of the model
ToLowerCase(s) ==
    CASE s = "Acme" -> "acme"
      [] s = " Acme " -> " acme "
      [] s = "Acme Corporation" -> "acme corporation"
      [] s = "Acme Grill" -> "acme grill"
      [] s = "Bolt Cafe" -> "bolt cafe"
      [] s = "Nameless Diner" -> "nameless diner"
      [] OTHER -> s

\* a.includes(b) on the lower-case company names of the model
Includes(a, b) ==
    \/ a = b
    \/ b = "acme" /\ a \in {" acme ", "acme corporation", "acme grill"}

\* name?.toLowerCase().replace(/\s+/g, '-') inside a template string
LinkedinSlug(name) ==
    CASE name = "Acme" -> "acme"
      [] name = "Acme Corporation" -> "acme-corporation"
      [] name = "Acme Grill" -> "acme-grill"
      [] name = "acme grill" -> "acme-grill"
      [] name = " Acme " -> "-acme-"
      [] name = "Bolt Cafe" -> "bolt-cafe"
      [] name = "Nameless Diner" -> "nameless-diner"
      [] name = "Unknown Business" -> "unknown-business"
      [] OTHER -> "undefined"

\* name?.toLowerCase().replace(/\s+/g, '') inside a template string
FacebookSlug(name) ==
    CASE name = "Acme" -> "acme"
      [] name = "Acme Corporation" -> "acmecorporation"
      [] name = "Acme Grill" -> "acmegrill"
      [] name = "acme grill" -> "acmegrill"
      [] name = " Acme " -> "acme"
      [] name = "Bolt Cafe" -> "boltcafe"
      [] name = "Nameless Diner" -> "namelessdiner"
      [] name = "Unknown Business" -> "unknownbusiness"
      [] OTHER -> "undefined"

\* website.replace(/^https?:\/\//,'').replace(/^www\./,'').split('/')[0].split('?')[0]
DomainOf(website) ==
    CASE website = "https://www.acme.io/about" -> "acme.io"
      [] website = "acme.io" -> "acme.io"
      [] OTHER -> website

----------------------------------------------------------------------------
(* Requests of /api/verify                                                 *)

\* a lead as the place search produced it: no owner, no e-mail
DiscoveredLead ==
    [id |-> 1, companyName |-> "Acme", phone |-> "555-0100",
     address |-> "1 Main St, Springfield", zipcode |-> "62701",
     city |-> "Springfield", state |-> "IL", country |-> "USA",
     industry |-> "Retail", website |-> "https://www.acme.io/about",
     source |-> "Google Places API"]

\* a lead a person filled in: owner, e-mail and rating are known
OwnedLead ==
    [id |-> 2, companyName |-> "Acme", ownerName |-> "Alice Owner",
     email |-> "alice@acme.io", phone |-> "555-0100", city |-> "Springfield",
     industry |-> "Retail", website |-> "https://www.acme.io/about",
     rating |-> "4.5"]

\* a lead with nothing but a name
SparseLead == [id |-> 3, companyName |-> "Acme", phone |-> NA]

\* a lead with a name and a city
TownLead == [id |-> 4, companyName |-> "Acme", city |-> "Springfield", phone |-> NA]

Leads == {DiscoveredLead, OwnedLead, SparseLead, TownLead}

\* req.body without a lead
NoLead == NullResult

AiProviders == {Undefined, "both", "claude", "chatgpt"}

\* what a provider does for one request: the credential is absent, the
\* request fails (network error, timeout and non-2xx all reject in axios and
\* in the SDKs), or it answers with a payload
NoKey == [kind |-> "nokey"]
Throws == [kind |-> "throw"]

----------------------------------------------------------------------------
(* Apollo people match                                                     *)

ApolloPersonFull ==
    [name |-> "Apollo Owner", email |-> "owner@acme.io", phone |-> "555-0199",
     orgName |-> "Acme Corporation", industry |-> "Wholesale",
     employees |-> "50", revenue |-> "$5M",
     city |-> "Chicago", state |-> "IL", country |-> "United States"]

ApolloPersonBare ==
    [name |-> Undefined, email |-> Undefined, phone |-> Undefined,
     orgName |-> Undefined, industry |-> Undefined,
     employees |-> Undefined, revenue |-> Undefined,
     city |-> Undefined, state |-> Undefined, country |-> Undefined]

ApolloEnvs ==
    {NoKey, Throws, [kind |-> "nomatch"],
     [kind |-> "ok", person |-> ApolloPersonFull],
     [kind |-> "ok", person |-> ApolloPersonBare]}

\* keys other than the ones a later step or the response merge reads
\* (title, emailStatus, photoUrl, ...) are left out of the returned object
enrichWithApollo(l, env) ==
    IF env.kind = "nokey" THEN NullResult
    ELSE IF ~Truthy(Get(l, "email")) /\ ~Truthy(Get(l, "ownerName"))
            /\ ~Truthy(Get(l, "linkedinUrl")) THEN NullResult
    ELSE IF env.kind = "throw" THEN NullResult
    ELSE IF env.kind = "nomatch" THEN NullResult
    ELSE LET person == env.person IN
         [ownerName |-> Or(person.name, Get(l, "ownerName")),
          email |-> Or(person.email, Get(l, "email")),
          phone |-> Or(person.phone, Get(l, "phone")),
          companyName |-> Or(person.orgName, Get(l, "companyName")),
          industry |-> Or(person.industry, Get(l, "industry")),
          employeeCount |-> person.employees,
          revenue |-> person.revenue,
          city |-> Or(person.city, Get(l, "city")),
          state |-> Or(person.state, Get(l, "state")),
          country |-> Or(person.country, Get(l, "country")),
          confidence |-> 90,
          source |-> "Apollo Enrichment"]

----------------------------------------------------------------------------
(* People Data Labs owner search                                           *)

PdlOwnerFull ==
    [full_name |-> "Pat Founder",
     emails |-> << [address |-> "pat@home.example", type |-> "personal", current |-> TRUE],
                   [address |-> "pat@acme.io", type |-> "professional", current |-> FALSE] >>,
     phone_numbers |-> << "555-0142" >>,
     location_locality |-> "Shelbyville", location_region |-> "IL",
     location_country |-> "united states"]

PdlOwnerBare ==
    [full_name |-> "Pat Founder", emails |-> << >>, phone_numbers |-> << >>,
     location_locality |-> Undefined, location_region |-> Undefined,
     location_country |-> Undefined]

PdlEnvs ==
    {NoKey, Throws, [kind |-> "empty"],
     [kind |-> "ok", owner |-> PdlOwnerFull],
     [kind |-> "ok", owner |-> PdlOwnerBare]}

\* emails.find(pred)?.address
FindAddress(emails, Pred(_)) ==
    IF \E i \in 1..Len(emails) : Pred(emails[i])
    THEN emails[CHOOSE i \in 1..Len(emails) :
                    Pred(emails[i]) /\ \A j \in 1..(i-1) : ~Pred(emails[j])].address
    ELSE Undefined

\* companyName.replace(..) throws inside the try block when companyName is
\* undefined; the catch returns null
findCompanyOwnerWithPDL(companyName, city, state, country, env) ==
    IF env.kind = "nokey" THEN NullResult
    ELSE IF companyName \in {Undefined, Null} THEN NullResult
    ELSE IF env.kind = "throw" THEN NullResult
    ELSE IF env.kind = "empty" THEN NullResult
    ELSE LET primaryOwner == env.owner
             IsProfessional(e) == e.type = "professional"
             IsCurrent(e) == e.current = TRUE
             bestEmail ==
                 IF Len(primaryOwner.emails) > 0
                 THEN Or(FindAddress(primaryOwner.emails, IsProfessional),
                         Or(FindAddress(primaryOwner.emails, IsCurrent),
                            primaryOwner.emails[1].address))
                 ELSE Null
             bestPhone ==
                 IF Len(primaryOwner.phone_numbers) > 0
                 THEN primaryOwner.phone_numbers[1] ELSE Null
         IN [ownerName |-> primaryOwner.full_name,
             email |-> bestEmail,
             phone |-> bestPhone,
             city |-> primaryOwner.location_locality,
             state |-> primaryOwner.location_region,
             country |-> primaryOwner.location_country,
             confidence |-> 90,
             source |-> "People Data Labs Person Search"]

----------------------------------------------------------------------------
(* Hunter.io domain search                                                 *)

HunterMailOwner ==
    [value |-> "olivia@acme.io", first_name |-> "Olivia", last_name |-> "Boss",
     position |-> "Owner", confidence |-> 97]
HunterMailStaff ==
    [value |-> "info@acme.io", first_name |-> Null, last_name |-> Null,
     position |-> Null, confidence |-> 0]

HunterEnvs ==
    {NoKey, Throws, [kind |-> "ok", emails |-> << >>],
     [kind |-> "ok", emails |-> << HunterMailStaff, HunterMailOwner >>],
     [kind |-> "ok", emails |-> << HunterMailStaff >>]}

\* position.toLowerCase().includes('owner' | 'ceo' | 'founder' | 'president' | 'partner')
IsOwnerPosition(position) == position \in {"Owner", "CEO", "Founder", "President", "Partner"}

\* `${first_name} ${last_name}`.trim()
FullName(first, last) ==
    CASE first = "Olivia" /\ last = "Boss" -> "Olivia Boss"
      [] OTHER -> "<full name>"

findEmailsWithHunter(l, env) ==
    IF env.kind = "nokey" THEN NullResult
    ELSE LET website == Get(l, "website")
             domain == IF Truthy(website) /\ website # NA THEN DomainOf(website) ELSE Null
         IN IF ~Truthy(domain) THEN NullResult
            ELSE IF env.kind = "throw" THEN NullResult
            ELSE IF Len(env.emails) = 0 THEN NullResult
            ELSE LET IsOwnerMail(e) == Truthy(e.position) /\ IsOwnerPosition(e.position)
                     primaryEmail ==
                         IF \E i \in 1..Len(env.emails) : IsOwnerMail(env.emails[i])
                         THEN env.emails[CHOOSE i \in 1..Len(env.emails) :
                                  IsOwnerMail(env.emails[i])
                                  /\ \A j \in 1..(i-1) : ~IsOwnerMail(env.emails[j])]
                         ELSE env.emails[1]
                 IN [domain |-> domain,
                     primaryEmail |-> primaryEmail.value,
                     ownerName |->
                         IF Truthy(primaryEmail.first_name) /\ Truthy(primaryEmail.last_name)
                         THEN FullName(primaryEmail.first_name, primaryEmail.last_name)
                         ELSE Null,
                     ownerPosition |-> primaryEmail.position,
                     totalEmails |-> Len(env.emails),
                     confidence |-> primaryEmail.confidence,
                     source |-> "Hunter.io Domain Search"]

----------------------------------------------------------------------------
(* Numverify phone validation                                              *)

NumverifyEnvs ==
    {NoKey, Throws,
     [kind |-> "ok", data |-> [valid |-> FALSE, international_format |-> Undefined]],
     [kind |-> "ok", data |-> [valid |-> TRUE, international_format |-> "+15550100"]],
     [kind |-> "ok", data |-> [valid |-> TRUE, international_format |-> ""]]}

validatePhoneWithNumverify(phoneNumber, env) ==
    IF env.kind = "nokey" THEN NullResult
    ELSE IF env.kind = "throw" THEN NullResult
    ELSE IF ~env.data.valid
         THEN [valid |-> FALSE, number |-> phoneNumber, internationalFormat |-> phoneNumber]
         ELSE [valid |-> TRUE, number |-> phoneNumber,
               internationalFormat |-> env.data.international_format]

----------------------------------------------------------------------------
(* Yelp business match                                                     *)

YelpBusinessFull ==
    [name |-> "Acme Grill", phone |-> "+15550177", display_phone |-> "(555) 0177",
     display_address |-> "9 Elm St, Springfield", zip_code |-> "62702",
     city |-> "Springfield", state |-> "IL", country |-> "US",
     category |-> "Restaurants", rating |-> "4.0", url |-> "https://www.yelp.com/biz/acme"]

YelpBusinessBare ==
    [name |-> Undefined, phone |-> "", display_phone |-> Undefined,
     display_address |-> Undefined, zip_code |-> Undefined,
     city |-> Undefined, state |-> Undefined, country |-> Undefined,
     category |-> Undefined, rating |-> Undefined, url |-> Undefined]

\* the answer to GET /v3/businesses/{id}: the request fails, or a business
YelpDetailEnvs ==
    {Throws, [kind |-> "ok", business |-> YelpBusinessFull],
     [kind |-> "ok", business |-> YelpBusinessBare]}

YelpEnvs ==
    {NoKey, Throws, [kind |-> "nomatch"]}
    \cup {[kind |-> "match", details |-> d] : d \in YelpDetailEnvs}

getYelpBusinessDetails(env) ==
    IF env.kind = "throw" THEN NullResult
    ELSE LET business == env.business IN
         [companyName |-> business.name,
          phone |-> Or(business.phone, business.display_phone),
          address |-> business.display_address,
          zipcode |-> business.zip_code,
          city |-> business.city,
          state |-> business.state,
          country |-> business.country,
          industry |-> business.category,
          rating |-> business.rating,
          yelpUrl |-> business.url,
          confidence |-> 95,
          source |-> "Yelp Business Details"]

\* lead.address.split(',')[0].trim()
FirstAddressSegment(address) ==
    CASE address = "1 Main St, Springfield" -> "1 Main St"
      [] address = "9 Elm St, Springfield" -> "9 Elm St"
      [] OTHER -> address

\* lead.phone.replace(/[^\d+]/g, '')
DialString(phone) ==
    CASE phone = "555-0100" -> "5550100"
      [] phone = "555-0199" -> "5550199"
      [] phone = "555-0142" -> "5550142"
      [] OTHER -> phone

\* the 2-letter code sent for lead.country
CountryCode(country) ==
    CASE country \in {"United States", "USA"} -> "US"
      [] country = "Canada" -> "CA"
      [] country \in {"United Kingdom", "UK"} -> "GB"
      [] country = "Australia" -> "AU"
      [] country \in {"US", "CA", "GB", "AU"} -> country
      [] OTHER -> "US"

\* if (lead[k] && lead[k] !== 'N/A')
Available(l, k) == Truthy(Get(l, k)) /\ Get(l, k) # NA

\* one member of matchParams: set when the field of the lead is available
MatchParam(l, k, name, value) ==
    IF Available(l, k) THEN [n \in {name} |-> value] ELSE << >>

\* const matchParams = { name: lead.companyName } and the members added to it
matchParams(l) ==
    Spread(Spread(Spread(Spread(Spread(Spread(
        [name |-> Get(l, "companyName")],
        MatchParam(l, "address", "address1", FirstAddressSegment(Get(l, "address")))),
        MatchParam(l, "city", "city", Get(l, "city"))),
        MatchParam(l, "state", "state", Get(l, "state"))),
        MatchParam(l, "zipcode", "zip_code", Get(l, "zipcode"))),
        MatchParam(l, "country", "country", CountryCode(Get(l, "country")))),
        MatchParam(l, "phone", "phone", DialString(Get(l, "phone"))))

\* the match request goes out whatever the parameters are
hasEnoughDataAlways(params) == TRUE

\* matchParams.name && (matchParams.address1 ||
\*     (matchParams.city && matchParams.state) || matchParams.phone)
hasEnoughData(params) ==
    /\ Truthy(Get(params, "name"))
    /\ \/ Truthy(Get(params, "address1"))
       \/ Truthy(Get(params, "city")) /\ Truthy(Get(params, "state"))
       \/ Truthy(Get(params, "phone"))

\* what goes over the wire in one call of verifyWithYelp: nothing, or the
\* match request and its answer
YelpTraffic(l, env) ==
    IF env.kind = "nokey" \/ ~hasEnoughData(matchParams(l)) THEN << >>
    ELSE << [type |-> "yelpmatch", params |-> matchParams(l)],
            [type |-> "yelpanswer", outcome |-> env.kind] >>

verifyWithYelp(l, env) ==
    IF env.kind = "nokey" THEN NullResult
    ELSE IF ~hasEnoughData(matchParams(l)) THEN NullResult
    ELSE IF env.kind = "throw" THEN NullResult
    ELSE IF env.kind = "nomatch" THEN [yelpVerified |-> FALSE, confidence |-> 0]
    ELSE LET details == getYelpBusinessDetails(env.details)
             head == [yelpVerified |-> TRUE, yelpId |-> "yelp-1",
                      yelpUrl |-> "https://www.yelp.com/biz/yelp-1"]
         IN Spread(IF IsNull(details) THEN head ELSE Spread(head, details),
                   [confidence |-> 95])

----------------------------------------------------------------------------
(* The two AI adapters                                                     *)

\* JSON.parse(response): the keys the prompt asks for, and whatever else
\* the model chose to put into the object
ParsedJane ==
    [ownerName |-> "Jane Doe", industry |-> "Retail", employeeCount |-> "10-50",
     revenue |-> "$1M-$5M", businessDetails |-> "Family-run store", confidence |-> 85]
ParsedJDoe ==
    [ownerName |-> "J. Doe", industry |-> "Technology", employeeCount |-> "11-50",
     revenue |-> "$2M", businessDetails |-> "Hardware and software", confidence |-> 60]
ParsedNotFound ==
    [ownerName |-> NA, industry |-> "", businessDetails |-> "", confidence |-> 10]
ParsedExtraKeys ==
    [ownerName |-> "Jane Doe", industry |-> "Retail", employeeCount |-> "10-50",
     revenue |-> "$1M-$5M", businessDetails |-> "Family-run store", confidence |-> 85,
     id |-> 99, verified |-> FALSE, aiConfidence |-> 75, aiSource |-> "model"]

\* an industry that came back as a nested object stands in the model as the
\* text of the object between angle brackets; IsObject, Member and
\* JSONStringify say what typeof, the member access and JSON.stringify give
IndustryWithPrimary == "<{primary: 'Retail', NAICS: '445110'}>"
IndustryWithNAICS == "<{NAICS: '445110'}>"
IndustryWithSector == "<{sector: 'Retail'}>"

\* typeof value === 'object' for a non-null value
IsObject(value) == value \in {IndustryWithPrimary, IndustryWithNAICS, IndustryWithSector}

\* object[key]
Member(object, key) ==
    CASE object = IndustryWithPrimary /\ key = "primary" -> "Retail"
      [] object = IndustryWithPrimary /\ key = "NAICS" -> "445110"
      [] object = IndustryWithNAICS /\ key = "NAICS" -> "445110"
      [] object = IndustryWithSector /\ key = "sector" -> "Retail"
      [] OTHER -> Undefined

\* JSON.stringify(object)
JSONStringify(object) ==
    CASE object = IndustryWithPrimary -> "{\"primary\":\"Retail\",\"NAICS\":\"445110\"}"
      [] object = IndustryWithNAICS -> "{\"NAICS\":\"445110\"}"
      [] object = IndustryWithSector -> "{\"sector\":\"Retail\"}"
      [] OTHER -> Undefined

ParsedPrimary == [ownerName |-> "Jane Doe", industry |-> IndustryWithPrimary, confidence |-> 85]
ParsedNAICS == [ownerName |-> NA, industry |-> IndustryWithNAICS, confidence |-> 60]
ParsedSector == [ownerName |-> NA, industry |-> IndustryWithSector, confidence |-> 60]

ParsedObjects ==
    {ParsedJane, ParsedJDoe, ParsedNotFound, ParsedExtraKeys,
     ParsedPrimary, ParsedNAICS, ParsedSector}

\* key absent or placeholder; SDK call rejects or JSON.parse throws; an object
AiEnvs == {NoKey, Throws} \cup {[kind |-> "ok", parsed |-> p] : p \in ParsedObjects}

\* if (parsed.industry && typeof parsed.industry === 'object')
\*     parsed.industry = parsed.industry.primary || parsed.industry.NAICS
\*                       || JSON.stringify(parsed.industry)
IndustryAsString(parsed) ==
    IF Truthy(Get(parsed, "industry")) /\ IsObject(parsed.industry)
    THEN Spread(parsed,
                [industry |-> Or(Member(parsed.industry, "primary"),
                                 Or(Member(parsed.industry, "NAICS"),
                                    JSONStringify(parsed.industry)))])
    ELSE parsed

verifyWithChatGPT(l, env) ==
    IF env.kind = "nokey" THEN NullResult
    ELSE IF env.kind = "throw" THEN NullResult
    ELSE Spread([source |-> "ChatGPT"], env.parsed)

\* verifyWithClaude without its try/catch: a rejected SDK call or a
\* JSON.parse error leaves the function as an exception
verifyWithClaudeUncaught(l, env) ==
    IF env.kind = "nokey" THEN NullResult
    ELSE IF env.kind = "throw" THEN Thrown
    ELSE Spread([source |-> "Claude"], IndustryAsString(env.parsed))

verifyWithClaude(l, env) ==
    IF env.kind = "nokey" THEN NullResult
    ELSE IF env.kind = "throw" THEN NullResult
    ELSE Spread([source |-> "Claude"], IndustryAsString(env.parsed))

\* the values Math.random() leads to in the mock branch
MockOwnerNames == <<"John Smith", "Jane Doe", "Mike Johnson", "Sarah Wilson", "David Brown">>
MockIndustries == <<"Technology", "Healthcare", "Finance", "Retail", "Manufacturing">>

\* the draws of Math.random() in a call of verifyLeadWithAI: none unless both
\* results are null; then Math.floor(Math.random() * 20), Math.random() > 0.5,
\* and Math.floor(Math.random() * 5) for each of ownerName and industry that
\* the lead does not have (|| does not evaluate its right operand otherwise)
Randoms(l, claude, chatGPT) ==
    IF IsNull(chatGPT) /\ IsNull(claude)
    THEN [conf : 0..19,
          owner : IF Truthy(Get(l, "ownerName")) THEN {1} ELSE 1..5,
          industry : IF Truthy(Get(l, "industry")) THEN {1} ELSE 1..5,
          fb : BOOLEAN]
    ELSE {[conf |-> 0, owner |-> 1, industry |-> 1, fb |-> FALSE]}

\* the object returned when neither adapter produced a result
MockVerification(l, rnd) ==
    Spread(l,
        [verified |-> TRUE,
         aiConfidence |-> rnd.conf + 80,
         ownerName |-> Or(Get(l, "ownerName"), MockOwnerNames[rnd.owner]),
         industry |-> Or(Get(l, "industry"), MockIndustries[rnd.industry]),
         employeeCount |-> "<random range>",
         revenue |-> "<random range>",
         businessDetails |-> "Mock verification - Configure API keys for real AI verification",
         aiSource |-> "Mock Data",
         socialMedia |->
             [linkedin |-> LinkedinSlug(Get(l, "companyName")),
              facebook |-> IF rnd.fb THEN FacebookSlug(Get(l, "companyName")) ELSE Null]])

\* finalResult.socialMedia = {...}
WithSocialMedia(finalResult) ==
    Spread(finalResult,
        [socialMedia |->
            [linkedin |-> LinkedinSlug(Get(finalResult, "companyName")),
             facebook |-> FacebookSlug(Get(finalResult, "companyName"))]])

\* `Claude (Primary): ${a}\nChatGPT (Secondary): ${b}`
BothDetails(a, b) == <<"Claude (Primary): ", a, "\nChatGPT (Secondary): ", b>>

\* the `chatGPTResult && claudeResult` branch, the same in both revisions
\* but for the last operand of ownerName (ownerTail)
BothBranch(l, claude, chatGPT, ownerTail) ==
    Spread(Spread(l, [verified |-> TRUE]),
        [ownerName |-> Or(Get(claude, "ownerName"),
                          Or(Get(chatGPT, "ownerName"), ownerTail)),
         industry |-> Or(Get(claude, "industry"),
                         Or(Get(chatGPT, "industry"), Get(l, "industry"))),
         employeeCount |-> Or(Get(claude, "employeeCount"), Get(chatGPT, "employeeCount")),
         revenue |-> Or(Get(claude, "revenue"), Get(chatGPT, "revenue")),
         businessDetails |-> BothDetails(Get(claude, "businessDetails"),
                                         Get(chatGPT, "businessDetails")),
         aiConfidence |-> 100,
         aiSource |-> "Claude (Primary) + ChatGPT (Secondary)",
         claudeConfidence |-> claude.confidence,
         chatGPTConfidence |-> chatGPT.confidence])

\* one of the single-adapter branches of the documented revision
SingleBranch(l, result, defaultDetails, label) ==
    Spread(Spread(l, [verified |-> TRUE]),
        [ownerName |-> Or(Get(result, "ownerName"), Or(Get(l, "ownerName"), NA)),
         industry |-> Or(Get(result, "industry"), Get(l, "industry")),
         employeeCount |-> Or(Get(result, "employeeCount"), NA),
         revenue |-> Or(Get(result, "revenue"), NA),
         businessDetails |-> Or(Get(result, "businessDetails"), defaultDetails),
         aiConfidence |-> 50,
         aiSource |-> label,
         confidence |-> result.confidence])

\* verifyLeadWithAI of ENGINEERING_DOCUMENTATION.md once both adapters returned
verifyLeadWithAI(l, claude, chatGPT, rnd) ==
    IF IsNull(chatGPT) /\ IsNull(claude) THEN MockVerification(l, rnd)
    ELSE IF ~IsNull(chatGPT) /\ ~IsNull(claude)
         THEN WithSocialMedia(BothBranch(l, claude, chatGPT, Or(Get(l, "ownerName"), NA)))
    ELSE IF ~IsNull(claude)
         THEN WithSocialMedia(SingleBranch(l, claude, "Verified by Claude AI", "Claude (Primary)"))
    ELSE WithSocialMedia(SingleBranch(l, chatGPT, "Verified by ChatGPT AI", "ChatGPT (Fallback)"))

\* the single-adapter branch with the adapter's object spread last
SingleBranchServerSpreadLast(l, result, label) ==
    Spread(Spread(Spread(l, [verified |-> TRUE]),
                  [aiConfidence |-> 50, aiSource |-> label]), result)

\* one of the single-adapter branches of server.js: the adapter's object is
\* spread over the lead
SingleBranchServer(l, result, label) ==
    Spread(Spread(Spread(l, [verified |-> TRUE]), result),
           [aiConfidence |-> 50, aiSource |-> label])

\* verifyLeadWithAI of server.js once both adapters returned
verifyLeadWithAIServer(l, claude, chatGPT, rnd) ==
    IF IsNull(chatGPT) /\ IsNull(claude) THEN MockVerification(l, rnd)
    ELSE IF ~IsNull(chatGPT) /\ ~IsNull(claude)
         THEN WithSocialMedia(BothBranch(l, claude, chatGPT, Get(l, "ownerName")))
    ELSE IF ~IsNull(claude)
         THEN WithSocialMedia(SingleBranchServer(l, claude, "Claude (Primary)"))
    ELSE WithSocialMedia(SingleBranchServer(l, chatGPT, "ChatGPT (Fallback)"))

----------------------------------------------------------------------------
(* POST /api/verify                                                        *)

Documented == "ENGINEERING_DOCUMENTATION.md"
ServerJs == "server.js"
Revisions == {Documented, ServerJs}

NoResponse == [status |-> 0]

\* the pipeline with the e-mail finder moved in front of the owner search
PipelineHunterFirst == <<"apollo", "hunter", "pdl", "numverify", "yelp", "claude", "chatgpt">>

\* the order in which the handler of the documented revision awaits the adapters
Pipeline == <<"apollo", "pdl", "hunter", "numverify", "yelp", "claude", "chatgpt">>

Rank(a) == CHOOSE i \in 1..Len(Pipeline) : Pipeline[i] = a

\* the statement executed after the step `a` has been merged
StepAfter(a) == IF Rank(a) < Len(Pipeline) THEN Pipeline[Rank(a) + 1] ELSE "merge"

Await(a) == a \o ".await"

\* enrichedLead = { ...enrichedLead, ...data, [flag]: true } when data is not null
MergeEnrichment(l, data, flag) ==
    IF IsNull(data) THEN l ELSE Spread(Spread(l, data), [k \in {flag} |-> TRUE])

\* if (enrichedLead.phone && enrichedLead.phone !== 'N/A')
ShouldValidatePhone(l) == Truthy(Get(l, "phone")) /\ Get(l, "phone") # NA

\* step 4 writing the international format into phone itself
MergePhoneValidationOverwrite(l, phoneValidation) ==
    IF IsNull(phoneValidation) THEN l
    ELSE LET stored == Spread(l, [phoneValidation |-> phoneValidation])
         IN IF phoneValidation.valid /\ Truthy(phoneValidation.internationalFormat)
            THEN Spread(stored, [phone |-> phoneValidation.internationalFormat])
            ELSE stored

\* the body of step 4 once validatePhoneWithNumverify returned
MergePhoneValidation(l, phoneValidation) ==
    IF IsNull(phoneValidation) THEN l
    ELSE LET stored == Spread(l, [phoneValidation |-> phoneValidation])
         IN IF phoneValidation.valid /\ Truthy(phoneValidation.internationalFormat)
            THEN Spread(stored, [phoneFormatted |-> phoneValidation.internationalFormat])
            ELSE stored

\* step 5 merging whatever object verifyWithYelp returned
MergeYelpAnyResult(l, yelpData) ==
    IF ~IsNull(yelpData)
    THEN Spread(Spread(l, yelpData), [yelpEnriched |-> TRUE])
    ELSE l

\* if (yelpData && yelpData.yelpVerified) enrichedLead = {...}
MergeYelp(l, yelpData) ==
    IF ~IsNull(yelpData) /\ Flag(yelpData, "yelpVerified")
    THEN Spread(Spread(l, yelpData), [yelpEnriched |-> TRUE])
    ELSE l

\* const provider = aiProvider || 'both'
Provider(p) == Or(p, "both")

RunsClaude(p) == Provider(p) \in {"both", "claude"}
RunsChatGPT(p) == Provider(p) \in {"both", "chatgpt"}

Idle ==
    /\ revision = Documented
    /\ pc = "idle"
    /\ lead = NoLead
    /\ aiProvider = Undefined
    /\ enrichedLead = NullResult
    /\ rets = << >>
    /\ inflight = {}
    /\ calls = << >>
    /\ claudeResult = NullResult
    /\ chatGPTResult = NullResult
    /\ response = NoResponse
    /\ searchMethod = "unknown"
    /\ scrapedResults = << >>
    /\ maxLeads = 0
    /\ polygons = 0
    /\ quotas = << >>
    /\ allResults = << >>
    /\ args = << >>
    /\ apiKey = TRUE
    /\ allPlaces = << >>
    /\ nextPageToken = Null
    /\ pageCount = 0
    /\ placeIndex = 0
    /\ leadResults = << >>
    /\ log = << >>
    /\ scrapedLeads = << >>
    /\ apolloFilters = << >>
    /\ searchSource = "Google Places"
    /\ scrapedData = << >>
    /\ leads = << >>
    /\ isProcessing = FALSE
    /\ closure = << >>

\* if (!lead) return res.status(400)
RejectVerify ==
    /\ pc = "idle"
    /\ \E r \in Revisions : revision' = r
    /\ \E p \in AiProviders : aiProvider' = p
    /\ lead' = NoLead
    /\ response' = [status |-> 400, error |-> "Lead data is required"]
    /\ pc' = "responded"
    /\ UNCHANGED <<enrichedLead, rets, inflight, calls, claudeResult, chatGPTResult>>
    /\ UNCHANGED manualVars /\ UNCHANGED areaVars
    /\ UNCHANGED args
    /\ UNCHANGED scrapeVars /\ UNCHANGED storeVars /\ UNCHANGED normalizerVars /\ UNCHANGED organizationVars
    /\ UNCHANGED appVars

\* the documented handler up to its first await
ReceiveVerify ==
    /\ pc = "idle"
    /\ revision' = Documented
    /\ \E l \in Leads : lead' = l /\ enrichedLead' = l
    /\ \E p \in AiProviders : aiProvider' = p
    /\ pc' = Pipeline[1]
    /\ UNCHANGED <<rets, inflight, calls, claudeResult, chatGPTResult, response>>
    /\ UNCHANGED manualVars /\ UNCHANGED areaVars
    /\ UNCHANGED args
    /\ UNCHANGED scrapeVars /\ UNCHANGED storeVars /\ UNCHANGED normalizerVars /\ UNCHANGED organizationVars
    /\ UNCHANGED appVars

\* the handler of server.js: verifyLeadWithAI(lead, provider) at once
ReceiveVerifyServer ==
    /\ pc = "idle"
    /\ revision' = ServerJs
    /\ \E l \in Leads : lead' = l /\ enrichedLead' = l
    /\ \E p \in AiProviders : aiProvider' = p
    /\ pc' = "claude"
    /\ UNCHANGED <<rets, inflight, calls, claudeResult, chatGPTResult, response>>
    /\ UNCHANGED manualVars /\ UNCHANGED areaVars
    /\ UNCHANGED args
    /\ UNCHANGED scrapeVars /\ UNCHANGED storeVars /\ UNCHANGED normalizerVars /\ UNCHANGED organizationVars
    /\ UNCHANGED appVars

\* every adapter call handed the lead of the request
ArgumentOriginalLead(a, original, working) ==
    CASE a = "pdl" ->
           [companyName |-> Get(original, "companyName"), city |-> Get(original, "city"),
            state |-> Get(original, "state"), country |-> Get(original, "country")]
      [] a = "numverify" -> [phoneNumber |-> Get(original, "phone")]
      [] OTHER -> original

\* what the handler passes to adapter a: enrichWithApollo(lead),
\* findCompanyOwnerWithPDL(enrichedLead.companyName, .city, .state, .country),
\* validatePhoneWithNumverify(enrichedLead.phone), and enrichedLead for the rest
Argument(a, original, working) ==
    CASE a = "apollo" -> original
      [] a = "pdl" ->
           [companyName |-> Get(working, "companyName"), city |-> Get(working, "city"),
            state |-> Get(working, "state"), country |-> Get(working, "country")]
      [] a = "numverify" -> [phoneNumber |-> Get(working, "phone")]
      [] OTHER -> working

\* the argument of the call that is awaited
Passed == args[Len(args)]

\* the handler calls adapter a and awaits its promise
Invoke(a) ==
    /\ pc = a
    /\ inflight' = inflight \cup {a}
    /\ calls' = Append(calls, a)
    /\ args' = Append(args, Argument(a, lead, enrichedLead))
    /\ pc' = Await(a)

\* the promise of adapter a settles with v and the handler resumes: with the
\* merged working lead, or in the catch block of the route when v is a rejection
Settle(a, v, merged) ==
    /\ pc = Await(a)
    /\ inflight' = inflight \ {a}
    /\ rets' = Append(rets, v)
    /\ IF IsThrown(v)
       THEN /\ pc' = "responded"
            /\ response' = [status |-> 500, error |-> "Failed to verify lead"]
            /\ enrichedLead' = enrichedLead
       ELSE /\ pc' = StepAfter(a)
            /\ response' = response
            /\ enrichedLead' = merged

CallApollo ==
    /\ Invoke("apollo")
    /\ UNCHANGED <<revision, lead, aiProvider, enrichedLead, rets, claudeResult,
                   chatGPTResult, response>>
    /\ UNCHANGED manualVars /\ UNCHANGED areaVars
    /\ UNCHANGED scrapeVars /\ UNCHANGED storeVars /\ UNCHANGED normalizerVars /\ UNCHANGED organizationVars
    /\ UNCHANGED appVars

ReturnApollo ==
    /\ \E env \in ApolloEnvs :
         LET apolloData == enrichWithApollo(Passed, env) IN
         Settle("apollo", apolloData, MergeEnrichment(enrichedLead, apolloData, "apolloEnriched"))
    /\ UNCHANGED <<revision, lead, aiProvider, calls, claudeResult, chatGPTResult>>
    /\ UNCHANGED manualVars /\ UNCHANGED areaVars
    /\ UNCHANGED args
    /\ UNCHANGED scrapeVars /\ UNCHANGED storeVars /\ UNCHANGED normalizerVars /\ UNCHANGED organizationVars
    /\ UNCHANGED appVars

CallPDL ==
    /\ Invoke("pdl")
    /\ UNCHANGED <<revision, lead, aiProvider, enrichedLead, rets, claudeResult,
                   chatGPTResult, response>>
    /\ UNCHANGED manualVars /\ UNCHANGED areaVars
    /\ UNCHANGED scrapeVars /\ UNCHANGED storeVars /\ UNCHANGED normalizerVars /\ UNCHANGED organizationVars
    /\ UNCHANGED appVars

ReturnPDL ==
    /\ \E env \in PdlEnvs :
         LET pdlData == findCompanyOwnerWithPDL(Passed.companyName, Passed.city,
                                                Passed.state, Passed.country, env) IN
         Settle("pdl", pdlData, MergeEnrichment(enrichedLead, pdlData, "pdlEnriched"))
    /\ UNCHANGED <<revision, lead, aiProvider, calls, claudeResult, chatGPTResult>>
    /\ UNCHANGED manualVars /\ UNCHANGED areaVars
    /\ UNCHANGED args
    /\ UNCHANGED scrapeVars /\ UNCHANGED storeVars /\ UNCHANGED normalizerVars /\ UNCHANGED organizationVars
    /\ UNCHANGED appVars

CallHunter ==
    /\ Invoke("hunter")
    /\ UNCHANGED <<revision, lead, aiProvider, enrichedLead, rets, claudeResult,
                   chatGPTResult, response>>
    /\ UNCHANGED manualVars /\ UNCHANGED areaVars
    /\ UNCHANGED scrapeVars /\ UNCHANGED storeVars /\ UNCHANGED normalizerVars /\ UNCHANGED organizationVars
    /\ UNCHANGED appVars

ReturnHunter ==
    /\ \E env \in HunterEnvs :
         LET hunterData == findEmailsWithHunter(Passed, env) IN
         Settle("hunter", hunterData, MergeEnrichment(enrichedLead, hunterData, "hunterEnriched"))
    /\ UNCHANGED <<revision, lead, aiProvider, calls, claudeResult, chatGPTResult>>
    /\ UNCHANGED manualVars /\ UNCHANGED areaVars
    /\ UNCHANGED args
    /\ UNCHANGED scrapeVars /\ UNCHANGED storeVars /\ UNCHANGED normalizerVars /\ UNCHANGED organizationVars
    /\ UNCHANGED appVars

CallNumverify ==
    /\ ShouldValidatePhone(enrichedLead)
    /\ Invoke("numverify")
    /\ UNCHANGED <<revision, lead, aiProvider, enrichedLead, rets, claudeResult,
                   chatGPTResult, response>>
    /\ UNCHANGED manualVars /\ UNCHANGED areaVars
    /\ UNCHANGED scrapeVars /\ UNCHANGED storeVars /\ UNCHANGED normalizerVars /\ UNCHANGED organizationVars
    /\ UNCHANGED appVars

\* step 4 is passed over
SkipNumverify ==
    /\ pc = "numverify"
    /\ ~ShouldValidatePhone(enrichedLead)
    /\ pc' = StepAfter("numverify")
    /\ UNCHANGED <<revision, lead, aiProvider, enrichedLead, rets, inflight, calls,
                   claudeResult, chatGPTResult, response>>
    /\ UNCHANGED manualVars /\ UNCHANGED areaVars
    /\ UNCHANGED args
    /\ UNCHANGED scrapeVars /\ UNCHANGED storeVars /\ UNCHANGED normalizerVars /\ UNCHANGED organizationVars
    /\ UNCHANGED appVars

ReturnNumverify ==
    /\ \E env \in NumverifyEnvs :
         LET phoneValidation == validatePhoneWithNumverify(Passed.phoneNumber, env) IN
         Settle("numverify", phoneValidation, MergePhoneValidation(enrichedLead, phoneValidation))
    /\ UNCHANGED <<revision, lead, aiProvider, calls, claudeResult, chatGPTResult>>
    /\ UNCHANGED manualVars /\ UNCHANGED areaVars
    /\ UNCHANGED args
    /\ UNCHANGED scrapeVars /\ UNCHANGED storeVars /\ UNCHANGED normalizerVars /\ UNCHANGED organizationVars
    /\ UNCHANGED appVars

CallYelp ==
    /\ Invoke("yelp")
    /\ UNCHANGED <<revision, lead, aiProvider, enrichedLead, rets, claudeResult,
                   chatGPTResult, response>>
    /\ UNCHANGED manualVars /\ UNCHANGED areaVars
    /\ UNCHANGED scrapeVars /\ UNCHANGED storeVars /\ UNCHANGED normalizerVars /\ UNCHANGED organizationVars
    /\ UNCHANGED appVars

ReturnYelp ==
    /\ \E env \in YelpEnvs :
         LET yelpData == verifyWithYelp(Passed, env) IN
         /\ Settle("yelp", yelpData, MergeYelp(enrichedLead, yelpData))
         /\ log' = log \o YelpTraffic(Passed, env)
    /\ UNCHANGED <<revision, lead, aiProvider, calls, claudeResult, chatGPTResult>>
    /\ UNCHANGED manualVars /\ UNCHANGED areaVars
    /\ UNCHANGED args
    /\ UNCHANGED <<apiKey, allPlaces, nextPageToken, pageCount, placeIndex, leadResults>>
    /\ UNCHANGED storeVars /\ UNCHANGED normalizerVars /\ UNCHANGED organizationVars
    /\ UNCHANGED appVars

\* verifyLeadWithAI: claudeResult = await verifyWithClaude(lead)
CallClaude ==
    /\ RunsClaude(aiProvider)
    /\ Invoke("claude")
    /\ UNCHANGED <<revision, lead, aiProvider, enrichedLead, rets, claudeResult,
                   chatGPTResult, response>>
    /\ UNCHANGED manualVars /\ UNCHANGED areaVars
    /\ UNCHANGED scrapeVars /\ UNCHANGED storeVars /\ UNCHANGED normalizerVars /\ UNCHANGED organizationVars
    /\ UNCHANGED appVars

SkipClaude ==
    /\ pc = "claude"
    /\ ~RunsClaude(aiProvider)
    /\ pc' = StepAfter("claude")
    /\ UNCHANGED <<revision, lead, aiProvider, enrichedLead, rets, inflight, calls,
                   claudeResult, chatGPTResult, response>>
    /\ UNCHANGED manualVars /\ UNCHANGED areaVars
    /\ UNCHANGED args
    /\ UNCHANGED scrapeVars /\ UNCHANGED storeVars /\ UNCHANGED normalizerVars /\ UNCHANGED organizationVars
    /\ UNCHANGED appVars

ReturnClaude ==
    /\ \E env \in AiEnvs :
         LET result == verifyWithClaude(Passed, env) IN
         /\ Settle("claude", result, enrichedLead)
         /\ claudeResult' = IF IsThrown(result) THEN claudeResult ELSE result
    /\ UNCHANGED <<revision, lead, aiProvider, calls, chatGPTResult>>
    /\ UNCHANGED manualVars /\ UNCHANGED areaVars
    /\ UNCHANGED args
    /\ UNCHANGED scrapeVars /\ UNCHANGED storeVars /\ UNCHANGED normalizerVars /\ UNCHANGED organizationVars
    /\ UNCHANGED appVars

\* verifyLeadWithAI: chatGPTResult = await verifyWithChatGPT(lead)
CallChatGPT ==
    /\ RunsChatGPT(aiProvider)
    /\ Invoke("chatgpt")
    /\ UNCHANGED <<revision, lead, aiProvider, enrichedLead, rets, claudeResult,
                   chatGPTResult, response>>
    /\ UNCHANGED manualVars /\ UNCHANGED areaVars
    /\ UNCHANGED scrapeVars /\ UNCHANGED storeVars /\ UNCHANGED normalizerVars /\ UNCHANGED organizationVars
    /\ UNCHANGED appVars

SkipChatGPT ==
    /\ pc = "chatgpt"
    /\ ~RunsChatGPT(aiProvider)
    /\ pc' = StepAfter("chatgpt")
    /\ UNCHANGED <<revision, lead, aiProvider, enrichedLead, rets, inflight, calls,
                   claudeResult, chatGPTResult, response>>
    /\ UNCHANGED manualVars /\ UNCHANGED areaVars
    /\ UNCHANGED args
    /\ UNCHANGED scrapeVars /\ UNCHANGED storeVars /\ UNCHANGED normalizerVars /\ UNCHANGED organizationVars
    /\ UNCHANGED appVars

ReturnChatGPT ==
    /\ \E env \in AiEnvs :
         LET result == verifyWithChatGPT(Passed, env) IN
         /\ Settle("chatgpt", result, enrichedLead)
         /\ chatGPTResult' = IF IsThrown(result) THEN chatGPTResult ELSE result
    /\ UNCHANGED <<revision, lead, aiProvider, calls, claudeResult>>
    /\ UNCHANGED manualVars /\ UNCHANGED areaVars
    /\ UNCHANGED args
    /\ UNCHANGED scrapeVars /\ UNCHANGED storeVars /\ UNCHANGED normalizerVars /\ UNCHANGED organizationVars
    /\ UNCHANGED appVars

\* the rest of verifyLeadWithAI and res.json(verifiedLead)
RespondVerify ==
    /\ pc = "merge"
    /\ \E rnd \in Randoms(enrichedLead, claudeResult, chatGPTResult) :
         response' =
            [status |-> 200,
             body |-> IF revision = Documented
                      THEN verifyLeadWithAI(enrichedLead, claudeResult, chatGPTResult, rnd)
                      ELSE verifyLeadWithAIServer(enrichedLead, claudeResult, chatGPTResult, rnd)]
    /\ pc' = "responded"
    /\ UNCHANGED <<revision, lead, aiProvider, enrichedLead, rets, inflight, calls,
                   claudeResult, chatGPTResult>>
    /\ UNCHANGED manualVars /\ UNCHANGED areaVars
    /\ UNCHANGED args
    /\ UNCHANGED scrapeVars /\ UNCHANGED storeVars /\ UNCHANGED normalizerVars /\ UNCHANGED organizationVars
    /\ UNCHANGED appVars

\* no normalizer is under test
NoText ==
    /\ cleanFn = "none"
    /\ cleanInput = << >>
    /\ cleanOutput = << >>
    /\ cleanAgain = << >>

Init == Idle /\ NoText

Next ==
    \/ RejectVerify
    \/ ReceiveVerify
    \/ ReceiveVerifyServer
    \/ CallApollo
    \/ ReturnApollo
    \/ CallPDL
    \/ ReturnPDL
    \/ CallHunter
    \/ ReturnHunter
    \/ CallNumverify
    \/ SkipNumverify
    \/ ReturnNumverify
    \/ CallYelp
    \/ ReturnYelp
    \/ CallClaude
    \/ SkipClaude
    \/ ReturnClaude
    \/ CallChatGPT
    \/ SkipChatGPT
    \/ ReturnChatGPT
    \/ RespondVerify

Spec == Init /\ [][Next]_vars

----------------------------------------------------------------------------
(* Properties of /api/verify                                               *)

Last(seq) == seq[Len(seq)]
Range(seq) == {seq[i] : i \in 1..Len(seq)}

\* a /api/verify call of the documented revision that carried a lead has answered
Enriched == pc = "responded" /\ revision = Documented /\ ~IsNull(lead)

\* a /api/verify call of either revision has answered with a lead
Verified == pc = "responded" /\ response.status = 200

Real(v) == v \notin {Undefined, Null, "", NA}

\* C4 as claimed: with both AI results present, ownerName, industry,
\* employeeCount and revenue each come from the first of Claude, ChatGPT and
\* the working lead that has a real value; a value that is not real ('N/A'
\* included) is the result only when none of the three has one.
AiMergePrecedence ==
    (Enriched /\ response.status = 200
        /\ ~IsNull(claudeResult) /\ ~IsNull(chatGPTResult)) =>
        \A f \in {"ownerName", "industry", "employeeCount", "revenue"} :
            LET candidates == <<Get(claudeResult, f), Get(chatGPTResult, f),
                                Get(enrichedLead, f)>>
            IN IF \E i \in 1..3 : Real(candidates[i])
               THEN Get(response.body, f) =
                        candidates[CHOOSE i \in 1..3 :
                            Real(candidates[i]) /\ \A j \in 1..(i-1) : ~Real(candidates[j])]
               ELSE ~Real(Get(response.body, f))

\* the steps of one enrich call in the order the specification gives them
EnrichOrder ==
    [apollo |-> 1, pdl |-> 2, hunter |-> 3, numverify |-> 4, yelp |-> 5,
     claude |-> 6, chatgpt |-> 7]

\* C5: the adapters of one call are invoked in the order Apollo, PDL, Hunter,
\* Numverify, Yelp, Claude, ChatGPT, each at most once and never while another
\* is pending; Numverify is invoked exactly when the working lead has a phone
\* other than 'N/A', and every other step of the requested mode is invoked
\* whatever the earlier steps returned.
PipelineOrder ==
    /\ [](/\ \A i, j \in 1..Len(calls) :
                i < j => EnrichOrder[calls[i]] < EnrichOrder[calls[j]]
          /\ Cardinality(inflight) <= 1
          /\ inflight # {} => inflight = {Last(calls)}
          /\ (Enriched /\ response.status = 200) =>
                /\ {"apollo", "pdl", "hunter", "yelp"} \subseteq Range(calls)
                /\ "claude" \in Range(calls) <=> aiProvider \in {Undefined, "both", "claude"}
                /\ "chatgpt" \in Range(calls) <=> aiProvider \in {Undefined, "both", "chatgpt"})
    /\ [][/\ calls' # calls => inflight = {} /\ Len(rets) = Len(calls)
          /\ pc = "numverify" =>
                ("numverify" \in Range(calls')
                    <=> Get(enrichedLead, "phone") \notin {Undefined, Null, "", NA})]_vars

\* C5 witness: all seven adapters ran, one after the other, and the call answered
PipelineRanAllSteps ==
    /\ Enriched
    /\ calls = <<"apollo", "pdl", "hunter", "numverify", "yelp", "claude", "chatgpt">>
    /\ Len(rets) = 7
    /\ ~IsNull(rets[1])
    /\ IsNull(rets[2])

\* C6: step 5 changes the working lead only when verifyWithYelp returned an
\* object with yelpVerified = true: then its keys are merged and yelpEnriched
\* is set; a null or a no-match result leaves the working lead as it was.
YelpMergeOnlyOnMatch ==
    [][pc = "yelp.await" =>
          LET yelpData == Last(rets') IN
          IF ~IsNull(yelpData) /\ yelpData.yelpVerified
          THEN /\ Flag(enrichedLead', "yelpEnriched")
               /\ \A k \in DOMAIN yelpData : k \in DOMAIN enrichedLead'
               /\ enrichedLead'.yelpId = yelpData.yelpId
          ELSE enrichedLead' = enrichedLead]_vars

\* C6 witness: Yelp searched and found nothing, and the lead went on to the AI step
YelpNoMatchSeen ==
    /\ revision = Documented
    /\ pc = "claude"
    /\ ~IsNull(Last(rets))
    /\ "yelpVerified" \in DOMAIN Last(rets)
    /\ ~Last(rets).yelpVerified
    /\ ~Flag(enrichedLead, "yelpEnriched")

\* C7: Numverify is called only for a phone that is present and not 'N/A';
\* a non-null result is stored as phoneValidation; phoneFormatted is written
\* only for a valid result with an international format; the phone key itself
\* is the same after the step as before it.
PhoneValidationStep ==
    [][/\ pc = "numverify" =>
            /\ pc' = "numverify.await"
                  => Get(enrichedLead, "phone") \notin {Undefined, Null, "", NA}
            /\ enrichedLead' = enrichedLead
       /\ pc = "numverify.await" =>
            LET phoneValidation == Last(rets') IN
            /\ Get(enrichedLead', "phone") = Get(enrichedLead, "phone")
            /\ IF IsNull(phoneValidation)
               THEN enrichedLead' = enrichedLead
               ELSE /\ enrichedLead'.phoneValidation = phoneValidation
                    /\ IF phoneValidation.valid
                          /\ phoneValidation.internationalFormat \notin {Undefined, Null, ""}
                       THEN enrichedLead'.phoneFormatted = phoneValidation.internationalFormat
                       ELSE "phoneFormatted" \in DOMAIN enrichedLead'
                                <=> "phoneFormatted" \in DOMAIN enrichedLead
                    /\ \A k \in DOMAIN enrichedLead' \ {"phoneValidation", "phoneFormatted"} :
                           k \in DOMAIN enrichedLead /\ enrichedLead'[k] = enrichedLead[k]]_vars

\* C7 witness: the provider called the number invalid; the result is stored
\* and the phone is still the caller's
PhoneInvalidStored ==
    /\ pc = "yelp"
    /\ "phoneValidation" \in DOMAIN enrichedLead
    /\ ~enrichedLead.phoneValidation.valid
    /\ "phoneFormatted" \notin DOMAIN enrichedLead
    /\ enrichedLead.phone = lead.phone

\* C8 as claimed: the lead a /api/verify call answers with has the id of the
\* lead the call was given.
IdentityStable ==
    Verified => response.body.id = lead.id

\* C19: in the documented /api/verify handler the owner search is called
\* with the companyName, city, state and country of the working lead, and the
\* email finder, the review-site matcher and both AI adapters are called with
\* the working lead itself, as it stands after every earlier merge; once a
\* merge has changed the working lead none of them is handed the lead of the
\* request.
WorkingLeadFlow ==
    [][(revision = Documented /\ Len(calls') > Len(calls)) =>
          LET a == Last(calls')
              arg == Last(args')
          IN /\ Len(args') = Len(calls')
             /\ a = "pdl" =>
                   arg = [companyName |-> Get(enrichedLead, "companyName"),
                          city |-> Get(enrichedLead, "city"),
                          state |-> Get(enrichedLead, "state"),
                          country |-> Get(enrichedLead, "country")]
             /\ a \in {"hunter", "yelp", "claude", "chatgpt"} =>
                   /\ arg = enrichedLead
                   /\ enrichedLead # lead => arg # lead]_vars

\* C19 witness: the organization enrichment changed the company name and the
\* owner search was then called with the new name
OwnerSearchSawMergedLead ==
    /\ revision = Documented
    /\ pc = Await("pdl")
    /\ Flag(enrichedLead, "apolloEnriched")
    /\ enrichedLead.companyName # lead.companyName
    /\ Passed.companyName = enrichedLead.companyName

----------------------------------------------------------------------------
(* scrapeGoogleMaps                                                        *)

\* const maxPages = 3
maxPages == 3

Min(a, b) == IF a < b THEN a ELSE b

\* one answer of the text-search endpoint: data.status, the place_id of each
\* entry of data.results, and whether data.next_page_token is present
Page(status, results, token) == [status |-> status, results |-> results, token |-> token]

\* what the places provider does during one scrapeGoogleMaps call: whether
\* GOOGLE_PLACES_API_KEY is set, the pages it serves in order, and how the
\* details request of a place ends when it is not with status OK
World(key, pages, details) == [apiKey |-> key, pages |-> pages, details |-> details]

NoFailures == [k \in {} |-> "OK"]

\* "OK", a status other than OK ("ERR"), or a rejected request ("THROW")
DetailsOutcome(world, place) ==
    IF place \in DOMAIN world.details THEN world.details[place] ELSE "OK"

Failure(message) == [ok |-> FALSE, error |-> message]

\* the do { ... } while (nextPageToken && allPlaces.length < maxLeads) loop,
\* entered with pageCount pages fetched and allPlaces collected
RECURSIVE CollectPages(_, _, _, _)
CollectPages(pages, fetched, gathered, limit) ==
    LET page == pages[fetched + 1] IN
    IF page.status = "THROW" THEN Failure("request failed")
    ELSE IF page.status \notin {"OK", "ZERO_RESULTS"}
         THEN IF Len(gathered) > 0
              THEN [ok |-> TRUE, places |-> gathered]
              ELSE Failure("Google Places API error")
    ELSE IF Len(page.results) = 0 THEN [ok |-> TRUE, places |-> gathered]
    ELSE LET collected == gathered \o page.results IN
         IF Len(collected) >= limit THEN [ok |-> TRUE, places |-> collected]
         ELSE IF fetched + 1 >= maxPages THEN [ok |-> TRUE, places |-> collected]
         ELSE IF page.token /\ Len(collected) < limit
              THEN CollectPages(pages, fetched + 1, collected, limit)
              ELSE [ok |-> TRUE, places |-> collected]

\* the fields a lead takes from the details answer of a place
PlaceFields(place) ==
    CASE place = "p1" ->
           [companyName |-> "Acme Corporation", phone |-> "555-0111",
            address |-> "1 Main St, Springfield, IL 62701, USA", zipcode |-> "62701",
            city |-> "Springfield", country |-> "United States", state |-> "IL",
            industry |-> "Retail", website |-> "https://www.acme.io/about",
            rating |-> "4.5", reviewCount |-> "12"]
      [] place = "p2" ->
           [companyName |-> "Acme Grill", phone |-> "555-0122",
            address |-> "2 Oak Ave, Springfield, IL 62702, USA", zipcode |-> "62702",
            city |-> "Springfield", country |-> "United States", state |-> "IL",
            industry |-> "Restaurant", website |-> NA,
            rating |-> "4.0", reviewCount |-> "40"]
      [] place = "p3" ->
           [companyName |-> "Bolt Cafe", phone |-> NA,
            address |-> "3 Elm Rd, Shelbyville", zipcode |-> NA,
            city |-> "Shelbyville", country |-> NA, state |-> "",
            industry |-> "Food & Beverage", website |-> NA,
            rating |-> NA, reviewCount |-> "0"]
      [] OTHER ->
           [companyName |-> "Nameless Diner", phone |-> NA,
            address |-> NA, zipcode |-> NA, city |-> NA, country |-> NA, state |-> "",
            industry |-> "Business", website |-> NA,
            rating |-> NA, reviewCount |-> "0"]

\* the lead object built from a details answer, in scrapeGoogleMaps and in
\* convertPlaceDetailsToLead alike
convertPlaceDetailsToLead(place, id) ==
    Spread(PlaceFields(place),
           [id |-> id, placeId |-> place, source |-> "Google Places API"])

\* the for (const place of places) loop: one lead for every place whose
\* details request answered OK; id stands for Date.now() + Math.random(),
\* which grows from one lead to the next
RECURSIVE DetailLeads(_, _, _)
DetailLeads(world, places, nextId) ==
    IF places = << >> THEN << >>
    ELSE IF DetailsOutcome(world, Head(places)) = "OK"
         THEN << convertPlaceDetailsToLead(Head(places), nextId) >>
              \o DetailLeads(world, Tail(places), nextId + 1)
         ELSE DetailLeads(world, Tail(places), nextId)

\* scrapeGoogleMaps(query, location, area, zipcode, country, maxLeads) against
\* a provider behaving as `world`; the outer catch rethrows every error
scrapeGoogleMaps(world, limit, nextId) ==
    IF ~world.apiKey THEN Failure("Google Places API key not configured")
    ELSE LET collected == CollectPages(world.pages, 0, << >>, limit) IN
         IF ~collected.ok THEN collected
         ELSE IF Len(collected.places) = 0 THEN [ok |-> TRUE, leads |-> << >>]
         ELSE LET places == SubSeq(collected.places, 1, Min(limit, Len(collected.places)))
              IN [ok |-> TRUE, leads |-> DetailLeads(world, places, nextId)]

----------------------------------------------------------------------------
(* POST /api/scrape-area                                                   *)

\* largest maxLeads a request of the model asks for
MaxRequested == 6

\* largest number of polygons in area.polygons
MaxPolygons == 3

\* provider behaviours a polygon search can meet
AreaWorlds ==
    {World(TRUE, << Page("OK", <<"p1", "p2">>, FALSE) >>, NoFailures),
     World(TRUE, << Page("OK", <<"p2", "p1">>, FALSE) >>, [k \in {"p2"} |-> "THROW"]),
     World(TRUE, << Page("OK", <<"p3">>, TRUE), Page("OK", <<"p1", "p3">>, FALSE) >>, NoFailures),
     World(TRUE, << Page("OK", <<"p2">>, TRUE), Page("OVER_QUERY_LIMIT", << >>, FALSE) >>, NoFailures),
     World(TRUE, << Page("OK", <<Undefined, "p3">>, FALSE) >>, NoFailures),
     World(TRUE, << Page("OK", <<"p1", "p2", "p3">>, FALSE) >>, NoFailures),
     World(TRUE, << Page("ZERO_RESULTS", << >>, FALSE) >>, NoFailures),
     World(TRUE, << Page("REQUEST_DENIED", << >>, FALSE) >>, NoFailures),
     World(FALSE, << >>, NoFailures)}

\* the quota rounded down
leadsPerPolygonFloor(total, n) == total \div n

\* const leadsPerPolygon = Math.ceil(maxLeads / area.polygons.length), for a
\* natural number maxLeads and a positive number of polygons
leadsPerPolygon(total, n) == (total + n - 1) \div n

\* the duplicate filter keeping the copy met last
RECURSIVE uniqueResultsKeepLast(_, _)
uniqueResultsKeepLast(results, seenPlaceIds) ==
    IF results = << >> THEN << >>
    ELSE LET result == Head(results) IN
         IF Truthy(result.placeId)
            /\ \A i \in 2..Len(results) : results[i].placeId # result.placeId
         THEN <<result>> \o uniqueResultsKeepLast(Tail(results), seenPlaceIds)
         ELSE uniqueResultsKeepLast(Tail(results), seenPlaceIds)

\* for (const result of allResults) if (result.placeId && !seenPlaceIds.has(..))
RECURSIVE uniqueResults(_, _)
uniqueResults(results, seenPlaceIds) ==
    IF results = << >> THEN << >>
    ELSE LET result == Head(results) IN
         IF Truthy(result.placeId) /\ result.placeId \notin seenPlaceIds
         THEN <<result>> \o uniqueResults(Tail(results), seenPlaceIds \cup {result.placeId})
         ELSE uniqueResults(Tail(results), seenPlaceIds)

\* uniqueResults.slice(0, maxLeads)
finalResults(results, limit) ==
    LET unique == uniqueResults(results, {})
    IN SubSeq(unique, 1, Min(limit, Len(unique)))

\* if (shouldEnrichWithApollo) enrichedResults = await Promise.all(
\* finalResults.map(...)), present in the documented revision only; every
\* request of the batch meets the provider behaving as env
enrichedResults(rev, results, shouldEnrichWithApollo, env) ==
    IF rev = Documented /\ shouldEnrichWithApollo
    THEN [i \in 1..Len(results) |->
              MergeEnrichment(results[i], enrichWithApollo(results[i], env), "apolloEnriched")]
    ELSE results

\* if (!query || !area) return res.status(400)
RejectArea ==
    /\ pc = "idle"
    /\ response' = [status |-> 400, error |-> "Both query and area are required"]
    /\ pc' = "responded"
    /\ UNCHANGED <<revision, lead, aiProvider, enrichedLead, rets, inflight, calls,
                   claudeResult, chatGPTResult>>
    /\ UNCHANGED manualVars /\ UNCHANGED areaVars
    /\ UNCHANGED args
    /\ UNCHANGED scrapeVars /\ UNCHANGED storeVars /\ UNCHANGED normalizerVars /\ UNCHANGED organizationVars
    /\ UNCHANGED appVars

\* a request whose area is a multipolygon with n polygons (n = 0: another
\* area type) enters the handler
ReceiveArea ==
    /\ pc = "idle"
    /\ \E total \in 1..MaxRequested : maxLeads' = total
    /\ \E n \in 0..MaxPolygons : polygons' = n
    /\ \E rev \in Revisions : revision' = rev
    /\ pc' = "area"
    /\ UNCHANGED <<quotas, allResults>>
    /\ UNCHANGED <<lead, aiProvider, enrichedLead, rets, inflight, calls,
                   claudeResult, chatGPTResult, response>>
    /\ UNCHANGED manualVars
    /\ UNCHANGED args
    /\ UNCHANGED scrapeVars /\ UNCHANGED storeVars /\ UNCHANGED normalizerVars /\ UNCHANGED organizationVars
    /\ UNCHANGED appVars

\* one iteration of the loop over area.polygons
SearchPolygon ==
    /\ pc = "area"
    /\ polygons > 0
    /\ Len(quotas) < polygons
    /\ \E world \in AreaWorlds :
         LET quota == leadsPerPolygon(maxLeads, polygons)
             polygonResults == scrapeGoogleMaps(world, quota, Len(allResults) + 1)
         IN /\ quotas' = Append(quotas, quota)
            /\ IF polygonResults.ok
               THEN /\ allResults' = allResults \o polygonResults.leads
                    /\ UNCHANGED <<pc, response>>
               ELSE /\ response' = [status |-> 500, error |-> "Failed to scrape area data"]
                    /\ pc' = "responded"
                    /\ UNCHANGED allResults
    /\ UNCHANGED <<maxLeads, polygons>>
    /\ UNCHANGED <<revision, lead, aiProvider, enrichedLead, rets, inflight, calls,
                   claudeResult, chatGPTResult>>
    /\ UNCHANGED manualVars
    /\ UNCHANGED args
    /\ UNCHANGED scrapeVars /\ UNCHANGED storeVars /\ UNCHANGED normalizerVars /\ UNCHANGED organizationVars
    /\ UNCHANGED appVars

\* the duplicate filter, the cut to maxLeads and res.json
RespondArea ==
    /\ pc = "area"
    /\ polygons > 0
    /\ Len(quotas) = polygons
    /\ \E shouldEnrichWithApollo \in BOOLEAN, env \in ApolloEnvs :
         response' = [status |-> 200,
                      results |-> enrichedResults(revision, finalResults(allResults, maxLeads),
                                                  shouldEnrichWithApollo, env),
                      polygonsSearched |-> polygons,
                      totalResultsBeforeDedup |-> Len(allResults)]
    /\ pc' = "responded"
    /\ UNCHANGED <<revision, lead, aiProvider, enrichedLead, rets, inflight, calls,
                   claudeResult, chatGPTResult>>
    /\ UNCHANGED manualVars /\ UNCHANGED areaVars
    /\ UNCHANGED args
    /\ UNCHANGED scrapeVars /\ UNCHANGED storeVars /\ UNCHANGED normalizerVars /\ UNCHANGED organizationVars
    /\ UNCHANGED appVars

\* the else branch: one scrapeGoogleMaps(query, location, area, .., maxLeads || 10)
SearchSingleArea ==
    /\ pc = "area"
    /\ polygons = 0
    /\ \E world \in AreaWorlds, shouldEnrichWithApollo \in BOOLEAN, env \in ApolloEnvs :
         LET results == scrapeGoogleMaps(world, maxLeads, 1) IN
         /\ quotas' = Append(quotas, maxLeads)
         /\ IF results.ok
            THEN /\ allResults' = results.leads
                 /\ response' = [status |-> 200,
                                 results |-> enrichedResults(revision, results.leads,
                                                             shouldEnrichWithApollo, env)]
            ELSE /\ response' = [status |-> 500, error |-> "Failed to scrape area data"]
                 /\ UNCHANGED allResults
    /\ pc' = "responded"
    /\ UNCHANGED <<maxLeads, polygons>>
    /\ UNCHANGED <<revision, lead, aiProvider, enrichedLead, rets, inflight, calls,
                   claudeResult, chatGPTResult>>
    /\ UNCHANGED manualVars
    /\ UNCHANGED args
    /\ UNCHANGED scrapeVars /\ UNCHANGED storeVars /\ UNCHANGED normalizerVars /\ UNCHANGED organizationVars
    /\ UNCHANGED appVars

NextArea ==
    \/ RejectArea
    \/ ReceiveArea
    \/ SearchPolygon
    \/ RespondArea
    \/ SearchSingleArea

SpecArea == Init /\ [][NextArea]_vars

\* a multipolygon search has answered with its result list
AreaAnswered == pc = "responded" /\ polygons > 0 /\ response.status = 200

\* C9: in the list a multipolygon search returns no placeId occurs twice,
\* every lead is the earliest lead of the concatenated polygon results with
\* its placeId, the leads are in the order of the concatenation, and there
\* are at most maxLeads of them.
DedupKeepsEarliest ==
    AreaAnswered =>
        LET results == response.results IN
        /\ \A i, j \in 1..Len(results) :
               i # j => results[i].placeId # results[j].placeId
        /\ \A i \in 1..Len(results) :
               \E k \in 1..Len(allResults) :
                   /\ allResults[k] = results[i]
                   /\ \A h \in 1..(k-1) : allResults[h].placeId # results[i].placeId
        /\ \A i, j \in 1..Len(results) :
               i < j => \E k, m \in 1..Len(allResults) :
                            k < m /\ allResults[k] = results[i] /\ allResults[m] = results[j]
        /\ Len(results) <= maxLeads

\* C9 witness: two polygons returned leads with the same three placeIds and
\* the answer has each of them once, as the first polygon delivered it
DedupAcrossPolygons ==
    /\ AreaAnswered
    /\ polygons = 2
    /\ Len(allResults) = 6
    /\ \A i \in 1..3 : allResults[i + 3].placeId = allResults[i].placeId
    /\ Len(response.results) = 3
    /\ \A i \in 1..3 : response.results[i].id = allResults[i].id

\* C10: every polygon of a multipolygon search with total quota T and n
\* polygons is searched with the same quota q, where n * q >= T and
\* n * (q - 1) < T, i.e. q = ceil(T / n); for T = 50 and n = 3 this is 17.
QuotaSplit ==
    /\ (pc \in {"area", "responded"} /\ polygons > 0) =>
           \A i \in 1..Len(quotas) :
               /\ quotas[i] = quotas[1]
               /\ polygons * quotas[i] >= maxLeads
               /\ polygons * (quotas[i] - 1) < maxLeads
    /\ AreaAnswered => Len(quotas) = polygons
    /\ polygons = 3 => leadsPerPolygon(50, polygons) = 17

\* C10 witness: three polygons were searched for a total of four leads, two each
QuotaSplitRoundedUp ==
    /\ AreaAnswered
    /\ polygons = 3
    /\ maxLeads = 4
    /\ quotas = <<2, 2, 2>>

----------------------------------------------------------------------------
(* POST /api/enrich-manual                                                 *)

\* req.body of the manual form: every field a string
ManualNameOnly == [companyName |-> "Acme"]

ManualFull ==
    [companyName |-> " Acme ", phone |-> "555-0100", address |-> "1 Main St, Springfield",
     zipcode |-> "62701", city |-> "Springfield", country |-> "USA",
     industry |-> "Retail", ownerName |-> "Alice Owner"]

ManualAddressOnly == [companyName |-> "", address |-> "1 Main St, Springfield"]

ManualCityZip == [companyName |-> "acme grill", city |-> "Springfield", zipcode |-> "62701"]

ManualOwnerOnly == [ownerName |-> "Alice Owner", phone |-> "  "]

ManualBlank == [companyName |-> "", phone |-> "  "]

ManualRequests ==
    {ManualNameOnly, ManualFull, ManualAddressOnly, ManualCityZip, ManualOwnerOnly, ManualBlank}

\* value && value.trim()
Filled(v) == Truthy(v) /\ Truthy(Trim(v))

\* Object.values(manualData).some(value => value && value.trim() !== '')
hasData(manualData) == \E k \in DOMAIN manualData : Filled(manualData[k])

\* manualData.field?.trim()
TrimOptional(v) == IF v \in {Undefined, Null} THEN Undefined ELSE Trim(v)

\* what the find-place request by phone number and the details request after
\* it do: the request rejects, no candidate, or a candidate whose details
\* request ends as `details`
PhoneSearches ==
    {[kind |-> "throw"], [kind |-> "none"],
     [kind |-> "found", place |-> "p3", details |-> "OK"],
     [kind |-> "found", place |-> "p3", details |-> "ERR"],
     [kind |-> "found", place |-> "p3", details |-> "THROW"]}

\* what the text search by address and the details requests after it do
AddressSearches ==
    {[kind |-> "throw"], [kind |-> "none"],
     [kind |-> "found", places |-> <<"p3", "p2">>, details |-> NoFailures],
     [kind |-> "found", places |-> <<"p3", "p2", "p1", "p2">>, details |-> NoFailures],
     [kind |-> "found", places |-> <<"p1", "p2">>, details |-> [k \in {"p2"} |-> "THROW"]],
     [kind |-> "found", places |-> <<"p1">>, details |-> [k \in {"p1"} |-> "ERR"]]}

\* the leads pushed by the loop over the top results before a details
\* request rejects, and whether one did
RECURSIVE AddressLeads(_, _, _)
AddressLeads(search, places, nextId) ==
    IF places = << >> THEN [leads |-> << >>, thrown |-> FALSE]
    ELSE LET outcome == DetailsOutcome(search, Head(places)) IN
         IF outcome = "THROW" THEN [leads |-> << >>, thrown |-> TRUE]
         ELSE LET rest == AddressLeads(search, Tail(places),
                                       IF outcome = "OK" THEN nextId + 1 ELSE nextId)
              IN [leads |-> (IF outcome = "OK"
                             THEN << convertPlaceDetailsToLead(Head(places), nextId) >>
                             ELSE << >>) \o rest.leads,
                  thrown |-> rest.thrown]

\* scrapedResults.find(predicate), undefined when no element satisfies it
Find(results, Pred(_)) ==
    IF \E i \in 1..Len(results) : Pred(results[i])
    THEN results[CHOOSE i \in 1..Len(results) :
                     Pred(results[i]) /\ \A j \in 1..(i-1) : ~Pred(results[j])]
    ELSE NullResult

bestMatch(manualData, results) ==
    IF Filled(Get(manualData, "companyName"))
    THEN LET wanted == ToLowerCase(manualData.companyName)
             exact(result) == ToLowerCase(result.companyName) = wanted
             partial(result) == \/ Includes(ToLowerCase(result.companyName), wanted)
                                \/ Includes(wanted, ToLowerCase(result.companyName))
             exactMatch == Find(results, exact)
             partialMatch == Find(results, partial)
         IN IF ~IsNull(exactMatch) THEN exactMatch
            ELSE IF ~IsNull(partialMatch) THEN partialMatch
            ELSE results[1]
    ELSE results[1]

\* the fields of the form the merge reads
ManualFields ==
    {"companyName", "phone", "address", "zipcode", "city", "country", "industry", "ownerName"}

\* let enrichedLead = { ...manualData, id: Date.now() } and the merge with
\* the best match; now stands for Date.now()
mergeManual(manualData, results, now) ==
    IF Len(results) > 0
    THEN LET best == bestMatch(manualData, results) IN
         Spread(Spread(Spread(best, [id |-> now]),
                       [k \in ManualFields |-> Or(TrimOptional(Get(manualData, k)), Get(best, k))]),
                [website |-> Get(best, "website"), rating |-> Get(best, "rating"),
                 reviewCount |-> Get(best, "reviewCount")])
    ELSE Spread(Spread(manualData, [id |-> now]),
                [companyName |-> Or(Get(manualData, "companyName"), "Unknown Business")])

\* if (!hasData) return res.status(400)
RejectManual ==
    /\ pc = "idle"
    /\ \E manualData \in ManualRequests :
         /\ ~hasData(manualData)
         /\ lead' = manualData
    /\ response' = [status |-> 400, error |-> "At least one field is required"]
    /\ pc' = "responded"
    /\ UNCHANGED <<revision, aiProvider, enrichedLead, rets, inflight, calls,
                   claudeResult, chatGPTResult>>
    /\ UNCHANGED manualVars /\ UNCHANGED areaVars
    /\ UNCHANGED args
    /\ UNCHANGED scrapeVars /\ UNCHANGED storeVars /\ UNCHANGED normalizerVars /\ UNCHANGED organizationVars
    /\ UNCHANGED appVars

\* a request with data enters the handler; without GOOGLE_PLACES_API_KEY the
\* throw inside the try block leads straight to the merge
ReceiveManual ==
    /\ pc = "idle"
    /\ \E manualData \in ManualRequests :
         /\ hasData(manualData)
         /\ lead' = manualData
    /\ \E rev \in Revisions : revision' = rev
    /\ \E key \in BOOLEAN :
         /\ apiKey' = key
         /\ pc' = IF key THEN "manual.phone" ELSE "manual.merge"
    /\ UNCHANGED <<aiProvider, enrichedLead, rets, inflight, calls,
                   claudeResult, chatGPTResult, response>>
    /\ UNCHANGED manualVars /\ UNCHANGED areaVars
    /\ UNCHANGED args
    /\ UNCHANGED <<allPlaces, nextPageToken, pageCount, placeIndex, leadResults, log>>
    /\ UNCHANGED storeVars /\ UNCHANGED normalizerVars /\ UNCHANGED organizationVars
    /\ UNCHANGED appVars

\* the record of one strategy of the manual enrichment: which one ran, how
\* many leads it added to scrapedResults, whether a request of it was rejected
Strategy(name, found, thrown) ==
    [type |-> "strategy", name |-> name, found |-> found, thrown |-> thrown]

\* Strategy 1, inside its own try/catch
SearchByPhone ==
    /\ pc = "manual.phone"
    /\ IF Filled(Get(lead, "phone"))
       THEN /\ searchMethod' = "phone"
            /\ \E search \in PhoneSearches :
                 LET hit == search.kind = "found" /\ search.details = "OK"
                     thrown == search.kind = "throw"
                                  \/ (search.kind = "found" /\ search.details = "THROW")
                 IN /\ scrapedResults' =
                          IF hit
                          THEN Append(scrapedResults,
                                      convertPlaceDetailsToLead(search.place, Len(scrapedResults) + 1))
                          ELSE scrapedResults
                    /\ log' = Append(log, Strategy("phone", IF hit THEN 1 ELSE 0, thrown))
       ELSE UNCHANGED <<searchMethod, scrapedResults, log>>
    /\ pc' = "manual.address"
    /\ UNCHANGED verifyVars /\ UNCHANGED areaVars
    /\ UNCHANGED args
    /\ UNCHANGED <<apiKey, allPlaces, nextPageToken, pageCount, placeIndex, leadResults>>
    /\ UNCHANGED storeVars /\ UNCHANGED normalizerVars /\ UNCHANGED organizationVars
    /\ UNCHANGED appVars

\* Strategy 2: a rejected request leaves the try block for the outer catch
SearchByAddress ==
    /\ pc = "manual.address"
    /\ IF /\ Len(scrapedResults) = 0
          /\ \/ Truthy(Get(lead, "address"))
             \/ Truthy(Get(lead, "city")) /\ Truthy(Get(lead, "zipcode"))
       THEN /\ searchMethod' = "address"
            /\ \E search \in AddressSearches :
                 IF search.kind = "throw"
                 THEN /\ pc' = "manual.merge"
                      /\ log' = Append(log, Strategy("address", 0, TRUE))
                      /\ UNCHANGED scrapedResults
                 ELSE IF search.kind = "none"
                 THEN /\ pc' = "manual.company"
                      /\ log' = Append(log, Strategy("address", 0, FALSE))
                      /\ UNCHANGED scrapedResults
                 ELSE LET top == SubSeq(search.places, 1, Min(3, Len(search.places)))
                          found == AddressLeads(search, top, Len(scrapedResults) + 1)
                      IN /\ scrapedResults' = scrapedResults \o found.leads
                         /\ log' = Append(log, Strategy("address", Len(found.leads), found.thrown))
                         /\ pc' = IF found.thrown THEN "manual.merge" ELSE "manual.company"
       ELSE /\ pc' = "manual.company"
            /\ UNCHANGED <<searchMethod, scrapedResults, log>>
    /\ UNCHANGED verifyVars /\ UNCHANGED areaVars
    /\ UNCHANGED args
    /\ UNCHANGED <<apiKey, allPlaces, nextPageToken, pageCount, placeIndex, leadResults>>
    /\ UNCHANGED storeVars /\ UNCHANGED normalizerVars /\ UNCHANGED organizationVars
    /\ UNCHANGED appVars

\* Strategy 3: scrapeGoogleMaps(manualData.companyName, location, null, .., 5)
SearchByCompanyName ==
    /\ pc = "manual.company"
    /\ IF Len(scrapedResults) = 0 /\ Filled(Get(lead, "companyName"))
       THEN /\ searchMethod' = "company_name"
            /\ \E world \in AreaWorlds :
                 LET results == scrapeGoogleMaps(world, 5, 1) IN
                 /\ scrapedResults' = IF results.ok THEN results.leads ELSE scrapedResults
                 /\ log' = Append(log, Strategy("company_name",
                                                IF results.ok THEN Len(results.leads) ELSE 0,
                                                ~results.ok))
       ELSE UNCHANGED <<searchMethod, scrapedResults, log>>
    /\ pc' = "manual.merge"
    /\ UNCHANGED verifyVars /\ UNCHANGED areaVars
    /\ UNCHANGED args
    /\ UNCHANGED <<apiKey, allPlaces, nextPageToken, pageCount, placeIndex, leadResults>>
    /\ UNCHANGED storeVars /\ UNCHANGED normalizerVars /\ UNCHANGED organizationVars
    /\ UNCHANGED appVars

\* the merge, verifyLeadWithAI(enrichedLead, 'both'), the three metadata
\* fields and res.json(verifiedLead)
RespondManual ==
    /\ pc = "manual.merge"
    /\ \E claudeEnv \in AiEnvs, chatGPTEnv \in AiEnvs :
         LET merged == mergeManual(lead, scrapedResults, Len(scrapedResults) + 1)
             claude == verifyWithClaude(merged, claudeEnv)
             chatGPT == verifyWithChatGPT(merged, chatGPTEnv)
         IN \E rnd \in Randoms(merged, claude, chatGPT) :
              LET verifiedLead == IF revision = Documented
                                  THEN verifyLeadWithAI(merged, claude, chatGPT, rnd)
                                  ELSE verifyLeadWithAIServer(merged, claude, chatGPT, rnd)
              IN /\ enrichedLead' = merged
                 /\ claudeResult' = claude
                 /\ chatGPTResult' = chatGPT
                 /\ response' =
                      [status |-> 200,
                       body |-> Spread(verifiedLead,
                                  [enrichmentSource |-> IF Len(scrapedResults) > 0
                                                        THEN "Google Maps + AI"
                                                        ELSE "Manual + AI",
                                   scrapedDataAvailable |-> Len(scrapedResults) > 0,
                                   searchMethod |-> searchMethod])]
    /\ pc' = "responded"
    /\ UNCHANGED <<revision, lead, aiProvider, rets, inflight, calls>>
    /\ UNCHANGED manualVars /\ UNCHANGED areaVars
    /\ UNCHANGED args
    /\ UNCHANGED scrapeVars /\ UNCHANGED storeVars /\ UNCHANGED normalizerVars /\ UNCHANGED organizationVars
    /\ UNCHANGED appVars

NextManual ==
    \/ RejectManual
    \/ ReceiveManual
    \/ SearchByPhone
    \/ SearchByAddress
    \/ SearchByCompanyName
    \/ RespondManual

SpecManual == Init /\ [][NextManual]_vars

\* the manual enrichment has answered with its lead
ManualAnswered ==
    pc = "responded" /\ response.status = 200 /\ "enrichmentSource" \in DOMAIN response.body

\* C3: every field of the manual form that the caller filled in has the
\* caller's value (as typed, or trimmed) in the lead the manual enrichment
\* returns, whatever the place search and the two AI adapters returned.
HumanValuePrecedence ==
    ManualAnswered =>
        \A k \in ManualFields :
            Filled(Get(lead, k)) =>
                Get(response.body, k) \in {lead[k], Trim(lead[k])}

----------------------------------------------------------------------------
(* cleanPhoneNumber, cleanZipcode, cleanAddress                            *)

\* In this part a JavaScript string is the sequence of its characters; the
\* empty sequence also stands for undefined and null, which the functions
\* below treat as they treat ''.
NAText == <<"N", "/", "A">>

Digits == {"0", "1", "2", "3", "4", "5", "6", "7", "8", "9"}
UpperLetters == <<"A", "B", "C", "D", "E", "F", "G", "H", "I", "J", "K", "L", 
                  "M", "N", "O", "P", "Q", "R", "S", "T", "U", "V", "W", "X", "Y", "Z">>
LowerLetters == <<"a", "b", "c", "d", "e", "f", "g", "h", "i", "j", "k", "l", 
                  "m", "n", "o", "p", "q", "r", "s", "t", "u", "v", "w", "x", "y", "z">>
UpperCase == {UpperLetters[i] : i \in DOMAIN UpperLetters}
LowerCase == {LowerLetters[i] : i \in DOMAIN LowerLetters}
\* the characters \s matches among the characters of the model
WhiteSpace == {" ", "\t", "\n"}

\* String.prototype.trim
RECURSIVE TrimStart(_)
TrimStart(text) ==
    IF text # << >> /\ Head(text) \in WhiteSpace THEN TrimStart(Tail(text)) ELSE text

RECURSIVE TrimEnd(_)
TrimEnd(text) ==
    IF text # << >> /\ text[Len(text)] \in WhiteSpace
    THEN TrimEnd(SubSeq(text, 1, Len(text) - 1))
    ELSE text

TrimText(text) == TrimEnd(TrimStart(text))

\* the characters of text that belong to class, in order
Only(text, class) ==
    LET Keep(c) == c \in class IN SelectSeq(text, Keep)

\* (text.match(/\d/g) || []).length
DigitCount(text) == Len(Only(text, Digits))

\* the lower-case form of a character
LowerChar(c) ==
    IF c \in UpperCase
    THEN CHOOSE l \in LowerCase :
             \E i \in DOMAIN UpperLetters : UpperLetters[i] = c /\ LowerLetters[i] = l
    ELSE c

LowerText(text) == [i \in 1..Len(text) |-> LowerChar(text[i])]

\* word occurs in text as a run of consecutive characters
HasSubstring(text, word) ==
    \E i \in 1..(Len(text) - Len(word) + 1) : SubSeq(text, i, i + Len(word) - 1) = word

\* /w1|w2|.../i finds a match in text
MatchesAnyWord(text, words) == \E word \in words : HasSubstring(LowerText(text), word)

\* one item of a regular expression: between min and max characters of class
Item(class, min, max) == [class |-> class, min |-> min, max |-> max]

\* /^item1 item2 ... $/.test(text)
RECURSIVE MatchesWhole(_, _)
MatchesWhole(text, items) ==
    IF items = << >> THEN text = << >>
    ELSE LET item == Head(items) IN
         \E n \in item.min..(IF item.max < Len(text) THEN item.max ELSE Len(text)) :
             /\ \A k \in 1..n : text[k] \in item.class
             /\ MatchesWhole(SubSeq(text, n + 1, Len(text)), Tail(items))

\* text.split(/\s+/)
RECURSIVE SplitWords(_, _)
SplitWords(text, word) ==
    IF text = << >> THEN <<word>>
    ELSE IF Head(text) \in WhiteSpace
         THEN <<word>> \o SplitWords(TrimStart(text), << >>)
         ELSE SplitWords(Tail(text), Append(word, Head(text)))

PhoneCharacters == Digits \cup WhiteSpace \cup {"-", "(", ")", "+", "."}

cleanPhoneNumber(phone) ==
    IF phone = << >> \/ phone = NAText THEN NAText
    ELSE LET matches == Only(phone, PhoneCharacters) IN
         IF matches = << >> THEN NAText
         ELSE LET cleaned == TrimText(matches) IN
              IF DigitCount(cleaned) < 7 THEN NAText ELSE cleaned

\* /United|States|America|Canada|Kingdom|City|County|Street|Avenue|Road/i
ZipcodeDenylist ==
    {<<"u", "n", "i", "t", "e", "d">>, <<"s", "t", "a", "t", "e", "s">>,
     <<"a", "m", "e", "r", "i", "c", "a">>,
     <<"c", "a", "n", "a", "d", "a">>,
     <<"k", "i", "n", "g", "d", "o", "m">>, <<"c", "i", "t", "y">>,
     <<"c", "o", "u", "n", "t", "y">>, <<"s", "t", "r", "e", "e", "t">>,
     <<"a", "v", "e", "n", "u", "e">>, <<"r", "o", "a", "d">>}

cleanZipcode(zipcode) ==
    IF zipcode = << >> \/ zipcode = NAText THEN NAText
    ELSE LET cleaned == TrimText(Only(zipcode,
                            Digits \cup UpperCase \cup LowerCase \cup WhiteSpace \cup {"-"}))
         IN IF Len(cleaned) > 15 THEN NAText
            ELSE IF MatchesAnyWord(cleaned, ZipcodeDenylist) THEN NAText
            ELSE cleaned

Separator == WhiteSpace \cup {"-"}

\* the four expressions of phonePatterns; a star is a repetition without
\* upper limit, written with a limit no text of the model reaches
phonePatterns ==
    {<<Item({"+"}, 0, 1), Item({"1"}, 0, 1), Item(WhiteSpace, 0, 1000), Item({"("}, 0, 1),
       Item(Digits, 3, 3), Item({")"}, 0, 1), Item(Separator, 0, 1), Item(Digits, 3, 3),
       Item(Separator, 0, 1), Item(Digits, 4, 4)>>,
     <<Item({"("}, 1, 1), Item(Digits, 3, 3), Item({")"}, 1, 1), Item(WhiteSpace, 0, 1000),
       Item(Digits, 3, 3), Item(Separator, 0, 1), Item(Digits, 4, 4)>>,
     <<Item(Digits, 3, 3), Item(Separator, 1, 1), Item(Digits, 3, 3), Item(Separator, 1, 1),
       Item(Digits, 4, 4)>>,
     <<Item({"+"}, 1, 1), Item(Digits, 1, 3), Item(Separator, 0, 1), Item(Digits, 3, 4),
       Item(Separator, 0, 1), Item(Digits, 3, 4), Item(Separator, 0, 1), Item(Digits, 3, 4)>>}

\* the words of hasStreetIndicators; \d+ is the digit test beside them
StreetIndicators ==
    {<<"s", "t", "r", "e", "e", "t">>, <<"s", "t">>,
     <<"a", "v", "e", "n", "u", "e">>, <<"a", "v", "e">>,
     <<"r", "o", "a", "d">>, <<"r", "d">>,
     <<"b", "o", "u", "l", "e", "v", "a", "r", "d">>,
     <<"b", "l", "v", "d">>, <<"d", "r", "i", "v", "e">>, <<"d", "r">>,
     <<"l", "a", "n", "e">>, <<"l", "n">>, <<"w", "a", "y">>,
     <<"c", "o", "u", "r", "t">>, <<"c", "t">>,
     <<"c", "i", "r", "c", "l", "e">>, <<"p", "l", "a", "c", "e">>,
     <<"p", "l">>, <<"s", "q", "u", "a", "r", "e">>, <<"s", "q">>,
     <<"p", "a", "r", "k", "w", "a", "y">>, <<"p", "k", "w", "y">>}

hasStreetIndicators(cleaned) ==
    MatchesAnyWord(cleaned, StreetIndicators) \/ DigitCount(cleaned) > 0

\* /^[A-Z][a-z]+$/.test(word)
Capitalized(word) ==
    /\ Len(word) >= 2
    /\ word[1] \in UpperCase
    /\ \A i \in 2..Len(word) : word[i] \in LowerCase

\* the address normalizer without its density rule
cleanAddressSparse(address) ==
    IF address = << >> \/ address = NAText THEN NAText
    ELSE LET cleaned == TrimText(address)
             totalLength == Len(cleaned)
             words == SplitWords(cleaned, << >>)
         IN IF \E pattern \in phonePatterns : MatchesWhole(cleaned, pattern) THEN NAText
            ELSE IF /\ Len(words) >= 2 /\ Len(words) <= 4
                    /\ ~hasStreetIndicators(cleaned)
                    /\ \A k \in 1..Len(words) : Capitalized(words[k])
                 THEN NAText
            ELSE IF totalLength < 10 THEN NAText
            ELSE cleaned

cleanAddress(address) ==
    IF address = << >> \/ address = NAText THEN NAText
    ELSE LET cleaned == TrimText(address)
             digitCount == DigitCount(cleaned)
             totalLength == Len(cleaned)
             words == SplitWords(cleaned, << >>)
         IN IF digitCount > 7 /\ digitCount * 10 > 4 * totalLength /\ totalLength < 30
            THEN NAText
            ELSE IF \E pattern \in phonePatterns : MatchesWhole(cleaned, pattern) THEN NAText
            ELSE IF /\ Len(words) >= 2 /\ Len(words) <= 4
                    /\ ~hasStreetIndicators(cleaned)
                    /\ \A i \in 1..Len(words) : Capitalized(words[i])
                 THEN NAText
            ELSE IF totalLength < 10 THEN NAText
            ELSE cleaned

----------------------------------------------------------------------------
(* The normalizers applied once and twice                                  *)

\* longest argument, counted in pieces
MaxPieces == 3

\* pieces the arguments are put together from
PhonePieces ==
    {<<"5", "5", "5">>, <<"-">>, <<"0", "1", "0", "0">>, <<" ">>, <<"(">>,
     <<")">>, <<"+", "1">>, <<"e", "x", "t">>, <<"N", "/", "A">>}

ZipcodePieces ==
    {<<"6", "2", "7", "0", "1">>, <<"-">>, <<"1", "2", "3", "4">>, <<" ">>,
     <<"#">>, <<"S", "W", "1", "A">>, <<"C", "i", "t", "y">>,
     <<"N", "/", "A">>,
     <<"0", "1", "2", "3", "4", "5", "6", "7", "8", "9">>}

AddressPieces ==
    {<<"1", "2", " ">>, <<"M", "a", "i", "n", " ">>, <<"S", "t">>,
     <<"J", "o", "h", "n", " ">>, <<"S", "m", "i", "t", "h">>,
     <<"5", "5", "5", "-">>, <<"0", "1", "0", "0">>,
     <<"S", "p", "r", "i", "n", "g", "f", "i", "e", "l", "d", ",", " ", "I", "L">>,
     <<"N", "/", "A">>}

\* the texts made of at most n pieces
RECURSIVE Texts(_, _)
Texts(pieces, n) ==
    IF n = 0 THEN {<< >>}
    ELSE LET shorter == Texts(pieces, n - 1)
         IN shorter \cup {text \o piece : text \in shorter, piece \in pieces}

Normalizers == {"cleanPhoneNumber", "cleanZipcode", "cleanAddress"}

Arguments(fn) ==
    CASE fn = "cleanPhoneNumber" -> Texts(PhonePieces, MaxPieces)
      [] fn = "cleanZipcode" -> Texts(ZipcodePieces, MaxPieces)
      [] fn = "cleanAddress" -> Texts(AddressPieces, MaxPieces)

Clean(fn, text) ==
    CASE fn = "cleanPhoneNumber" -> cleanPhoneNumber(text)
      [] fn = "cleanZipcode" -> cleanZipcode(text)
      [] fn = "cleanAddress" -> cleanAddress(text)

InitClean ==
    /\ Idle
    /\ \E fn \in Normalizers :
         /\ cleanFn = fn
         /\ cleanInput \in Arguments(fn)
    /\ cleanOutput = << >>
    /\ cleanAgain = << >>

Normalize ==
    /\ pc = "idle"
    /\ cleanFn \in Normalizers
    /\ cleanOutput' = Clean(cleanFn, cleanInput)
    /\ pc' = "cleaned"
    /\ UNCHANGED <<cleanFn, cleanInput, cleanAgain>>
    /\ UNCHANGED verifyVars /\ UNCHANGED manualVars /\ UNCHANGED areaVars
    /\ UNCHANGED args /\ UNCHANGED scrapeVars /\ UNCHANGED storeVars
    /\ UNCHANGED organizationVars /\ UNCHANGED appVars

NormalizeAgain ==
    /\ pc = "cleaned"
    /\ cleanAgain' = Clean(cleanFn, cleanOutput)
    /\ pc' = "cleaned.twice"
    /\ UNCHANGED <<cleanFn, cleanInput, cleanOutput>>
    /\ UNCHANGED verifyVars /\ UNCHANGED manualVars /\ UNCHANGED areaVars
    /\ UNCHANGED args /\ UNCHANGED scrapeVars /\ UNCHANGED storeVars
    /\ UNCHANGED organizationVars /\ UNCHANGED appVars

NextClean ==
    \/ Normalize
    \/ NormalizeAgain

SpecClean == InitClean /\ [][NextClean]_vars

\* C15: each of cleanPhoneNumber, cleanZipcode and cleanAddress maps its own
\* result to itself, and maps 'N/A' to 'N/A'.
NormalizersIdempotent ==
    /\ pc = "cleaned.twice" => cleanAgain = cleanOutput
    /\ (pc = "cleaned" /\ cleanInput = NAText) => cleanOutput = NAText

----------------------------------------------------------------------------
(* POST /api/scrape, with scrapeGoogleMaps step by step                    *)

\* largest maxLeads a request of /api/scrape asks for
MaxScrapeLeads == 4

\* maxLeads || 10
DefaultMaxLeads == 10

\* await delay(2000) before the next page
PageDelay == 2000

\* await delay(100) after a details answer
DetailsDelay == 100

\* a || b on texts
OrText(a, b) == IF a # << >> THEN a ELSE b

\* the result object of a details answer: phone numbers, address and the
\* long_name of the postal_code component
RawDetails(place) ==
    CASE place = "p1" ->
           [formatted_phone_number |-> <<"(", "5", "5", "5", ")", " ", "5", "5", "5", "-", "0", "1", "0", "0">>,
            international_phone_number |-> << >>,
            formatted_address |-> <<"1", "2", " ", "M", "a", "i", "n", " ", "S", "t", ",", " ", "I", "L">>,
            postal_code |-> <<"6", "2", "7", "0", "1">>]
      [] place = "p2" ->
           [formatted_phone_number |-> << >>,
            international_phone_number |-> <<"+", "1", " ", "1", "1", "2">>,
            formatted_address |-> <<"J", "o", "h", "n", " ", "S", "m", "i", "t", "h">>,
            postal_code |-> <<"#">>]
      [] OTHER ->
           [formatted_phone_number |-> << >>, international_phone_number |-> << >>,
            formatted_address |-> << >>, postal_code |-> << >>]

\* the lead built from a details answer: the documented revision passes
\* phone, zipcode and address through the normalizers, server.js does not
placeFields(rev, place) ==
    LET details == RawDetails(place)
        phone == OrText(details.formatted_phone_number, details.international_phone_number)
    IN IF rev = Documented
       THEN [placeId |-> place, source |-> "Google Places API",
             phone |-> cleanPhoneNumber(phone),
             address |-> cleanAddress(details.formatted_address),
             zipcode |-> cleanZipcode(details.postal_code)]
       ELSE [placeId |-> place, source |-> "Google Places API",
             phone |-> OrText(phone, NAText),
             address |-> OrText(details.formatted_address, NAText),
             zipcode |-> OrText(details.postal_code, NAText)]

\* the places the text-search answers of the model name
ScrapePlaces == {"p1", "p2", "p3"}

\* placeFields of every place, worked out once
PlaceLeads == [rev \in Revisions |-> [place \in ScrapePlaces |-> placeFields(rev, place)]]

\* results.push({id: results.length + 1, ...})
placeLead(rev, place, id) == Spread(PlaceLeads[rev][place], [id |-> id])

\* answers of the text-search endpoint; THROW is a rejected request
PageAnswers ==
    {Page("OK", <<"p1">>, TRUE), Page("OK", <<"p1">>, FALSE),
     Page("OK", <<"p2", "p3">>, TRUE), Page("OK", <<"p2", "p3">>, FALSE),
     Page("OK", << >>, TRUE), Page("ZERO_RESULTS", << >>, FALSE),
     Page("OVER_QUERY_LIMIT", << >>, FALSE), Page("THROW", << >>, FALSE)}

DetailsOutcomes == {"OK", "ERR", "THROW"}

\* the maxLeads parameter of the scrapeGoogleMaps call
Limit == IF maxLeads = 0 THEN DefaultMaxLeads ELSE maxLeads

\* const places = allPlaces.slice(0, maxLeads)
Places == SubSeq(allPlaces, 1, Min(Limit, Len(allPlaces)))

\* the catch of scrapeGoogleMaps rethrows, the catch of the route answers 500
ScrapeFailure(message) ==
    [status |-> 500, error |-> "Failed to scrape data",
     message |-> "Failed to fetch data from Google Places API: " \o message]

\* if (!query || !location) return res.status(400)
RejectScrape ==
    /\ pc = "idle"
    /\ response' = [status |-> 400, error |-> "Both query and location are required"]
    /\ pc' = "responded"
    /\ UNCHANGED <<revision, lead, aiProvider, enrichedLead, rets, inflight, calls,
                   claudeResult, chatGPTResult>>
    /\ UNCHANGED manualVars /\ UNCHANGED areaVars /\ UNCHANGED args
    /\ UNCHANGED scrapeVars /\ UNCHANGED storeVars /\ UNCHANGED normalizerVars /\ UNCHANGED organizationVars
    /\ UNCHANGED appVars

\* the route calls scrapeGoogleMaps(query, location, null, zipcode, country, maxLeads || 10)
ReceiveScrape ==
    /\ pc = "idle"
    /\ \E rev \in Revisions : revision' = rev
    /\ \E total \in 0..MaxScrapeLeads : maxLeads' = total
    /\ \E key \in BOOLEAN : apiKey' = key
    /\ pc' = "scrape"
    /\ UNCHANGED <<lead, aiProvider, enrichedLead, rets, inflight, calls,
                   claudeResult, chatGPTResult, response>>
    /\ UNCHANGED <<polygons, quotas, allResults>>
    /\ UNCHANGED <<allPlaces, nextPageToken, pageCount, placeIndex, leadResults, log>>
    /\ UNCHANGED manualVars /\ UNCHANGED args
    /\ UNCHANGED storeVars /\ UNCHANGED normalizerVars /\ UNCHANGED organizationVars
    /\ UNCHANGED appVars

\* if (!apiKey) throw new Error('Google Places API key not configured')
MissingKey ==
    /\ pc = "scrape"
    /\ ~apiKey
    /\ response' = ScrapeFailure("Google Places API key not configured")
    /\ pc' = "responded"
    /\ UNCHANGED <<revision, lead, aiProvider, enrichedLead, rets, inflight, calls,
                   claudeResult, chatGPTResult>>
    /\ UNCHANGED manualVars /\ UNCHANGED areaVars /\ UNCHANGED args
    /\ UNCHANGED scrapeVars /\ UNCHANGED storeVars /\ UNCHANGED normalizerVars /\ UNCHANGED organizationVars
    /\ UNCHANGED appVars

\* the search goes on to the pagination loop without looking at the key
StartScrapeUnchecked ==
    /\ pc = "scrape"
    /\ pc' = "scrape.fetch"
    /\ UNCHANGED verifyVars
    /\ UNCHANGED manualVars /\ UNCHANGED areaVars /\ UNCHANGED args
    /\ UNCHANGED scrapeVars /\ UNCHANGED storeVars /\ UNCHANGED normalizerVars /\ UNCHANGED organizationVars
    /\ UNCHANGED appVars

\* the key is set: the query is built and the pagination loop entered
StartScrape ==
    /\ pc = "scrape"
    /\ apiKey
    /\ pc' = "scrape.fetch"
    /\ UNCHANGED verifyVars
    /\ UNCHANGED manualVars /\ UNCHANGED areaVars /\ UNCHANGED args
    /\ UNCHANGED scrapeVars /\ UNCHANGED storeVars /\ UNCHANGED normalizerVars /\ UNCHANGED organizationVars
    /\ UNCHANGED appVars

\* pageCount++ and axios.get(textSearchUrl, {params: requestParams}); the
\* request carries pagetoken when nextPageToken is set
RequestPage ==
    /\ pc = "scrape.fetch"
    /\ pageCount' = pageCount + 1
    /\ log' = Append(log, [type |-> "textsearch", pagetoken |-> Truthy(nextPageToken)])
    /\ pc' = "scrape.fetch.await"
    /\ UNCHANGED <<apiKey, allPlaces, nextPageToken, placeIndex, leadResults>>
    /\ UNCHANGED verifyVars
    /\ UNCHANGED manualVars /\ UNCHANGED areaVars /\ UNCHANGED args
    /\ UNCHANGED storeVars /\ UNCHANGED normalizerVars /\ UNCHANGED organizationVars
    /\ UNCHANGED appVars

\* the loop breaks one page later
PageLimitReachedLate(pages) == pages >= maxPages + 1

\* if (pageCount >= maxPages) break
PageLimitReached(pages) == pages >= maxPages

\* if (allPlaces.length >= maxLeads) break
EnoughPlaces(collected) == Len(collected) >= Limit

\* while (nextPageToken && allPlaces.length < maxLeads)
LoopAgain(token, collected) == Truthy(token) /\ Len(collected) < Limit

\* the position after a page was added to allPlaces and the two break
\* conditions did not hold, going to the loop condition at once
AfterPageNoWait(token, collected) == "scrape.loop"

\* the position after a page was added to allPlaces and the two break
\* conditions did not hold: if (nextPageToken) await delay(2000), then the
\* loop condition
AfterPage(token, collected) ==
    IF Truthy(token) THEN "scrape.delay" ELSE "scrape.loop"

\* data.status is neither OK nor ZERO_RESULTS: break when allPlaces has
\* entries, throw otherwise
AfterErrorStatus(collected) ==
    IF Len(collected) > 0 THEN "scrape.collected" ELSE "scrape.failed"

\* the text-search request settles
ReceivePage ==
    /\ pc = "scrape.fetch.await"
    /\ \E answer \in PageAnswers :
         /\ log' = Append(log, [type |-> "page", status |-> answer.status,
                                token |-> answer.token, count |-> Len(answer.results)])
         /\ IF answer.status = "THROW"
            THEN /\ pc' = "scrape.failed"
                 /\ UNCHANGED <<allPlaces, nextPageToken>>
            ELSE IF answer.status \notin {"OK", "ZERO_RESULTS"}
            THEN /\ pc' = AfterErrorStatus(allPlaces)
                 /\ UNCHANGED <<allPlaces, nextPageToken>>
            ELSE IF Len(answer.results) = 0
            THEN /\ pc' = "scrape.collected"
                 /\ UNCHANGED <<allPlaces, nextPageToken>>
            ELSE LET collected == allPlaces \o answer.results
                     token == IF answer.token THEN "token" ELSE Undefined
                 IN /\ allPlaces' = collected
                    /\ nextPageToken' = token
                    /\ pc' = IF EnoughPlaces(collected) THEN "scrape.collected"
                             ELSE IF PageLimitReached(pageCount) THEN "scrape.collected"
                             ELSE AfterPage(token, collected)
    /\ UNCHANGED <<apiKey, pageCount, placeIndex, leadResults>>
    /\ UNCHANGED verifyVars
    /\ UNCHANGED manualVars /\ UNCHANGED areaVars /\ UNCHANGED args
    /\ UNCHANGED storeVars /\ UNCHANGED normalizerVars /\ UNCHANGED organizationVars
    /\ UNCHANGED appVars

\* await delay(2000) ends
WaitForToken ==
    /\ pc = "scrape.delay"
    /\ log' = Append(log, [type |-> "delay", ms |-> PageDelay])
    /\ pc' = "scrape.loop"
    /\ UNCHANGED <<apiKey, allPlaces, nextPageToken, pageCount, placeIndex, leadResults>>
    /\ UNCHANGED verifyVars
    /\ UNCHANGED manualVars /\ UNCHANGED areaVars /\ UNCHANGED args
    /\ UNCHANGED storeVars /\ UNCHANGED normalizerVars /\ UNCHANGED organizationVars
    /\ UNCHANGED appVars

\* the loop condition: another round of the do-while, or on to the details
LoopCondition ==
    /\ pc = "scrape.loop"
    /\ pc' = IF LoopAgain(nextPageToken, allPlaces) THEN "scrape.fetch" ELSE "scrape.collected"
    /\ UNCHANGED verifyVars
    /\ UNCHANGED manualVars /\ UNCHANGED areaVars /\ UNCHANGED args
    /\ UNCHANGED scrapeVars /\ UNCHANGED storeVars /\ UNCHANGED normalizerVars /\ UNCHANGED organizationVars
    /\ UNCHANGED appVars

\* an error thrown in scrapeGoogleMaps reaches the catch of the route
FailScrape ==
    /\ pc = "scrape.failed"
    /\ response' = ScrapeFailure("Google Places API error")
    /\ pc' = "responded"
    /\ UNCHANGED <<revision, lead, aiProvider, enrichedLead, rets, inflight, calls,
                   claudeResult, chatGPTResult>>
    /\ UNCHANGED manualVars /\ UNCHANGED areaVars /\ UNCHANGED args
    /\ UNCHANGED scrapeVars /\ UNCHANGED storeVars /\ UNCHANGED normalizerVars /\ UNCHANGED organizationVars
    /\ UNCHANGED appVars

\* res.json({success: true, results, ...}); the documented revision may
\* enrich the leads with Apollo first
ScrapeSuccess(rev, found, shouldEnrichWithApollo, env) ==
    [status |-> 200, results |-> enrichedResults(rev, found, shouldEnrichWithApollo, env)]

\* if (allPlaces.length === 0) return []
ReturnNoPlaces ==
    /\ pc = "scrape.collected"
    /\ Len(allPlaces) = 0
    /\ \E shouldEnrichWithApollo \in BOOLEAN, env \in ApolloEnvs :
         response' = ScrapeSuccess(revision, << >>, shouldEnrichWithApollo, env)
    /\ pc' = "responded"
    /\ UNCHANGED <<revision, lead, aiProvider, enrichedLead, rets, inflight, calls,
                   claudeResult, chatGPTResult>>
    /\ UNCHANGED manualVars /\ UNCHANGED areaVars /\ UNCHANGED args
    /\ UNCHANGED scrapeVars /\ UNCHANGED storeVars /\ UNCHANGED normalizerVars /\ UNCHANGED organizationVars
    /\ UNCHANGED appVars

\* const places = allPlaces.slice(0, maxLeads) and the entry of the details loop
EnterDetailsLoop ==
    /\ pc = "scrape.collected"
    /\ Len(allPlaces) > 0
    /\ pc' = "scrape.details"
    /\ UNCHANGED verifyVars
    /\ UNCHANGED manualVars /\ UNCHANGED areaVars /\ UNCHANGED args
    /\ UNCHANGED scrapeVars /\ UNCHANGED storeVars /\ UNCHANGED normalizerVars /\ UNCHANGED organizationVars
    /\ UNCHANGED appVars

\* axios.get(detailsUrl, {params: {place_id: place.place_id, ...}}) for the
\* next place of places
RequestDetails ==
    /\ pc = "scrape.details"
    /\ placeIndex < Len(Places)
    /\ log' = Append(log, [type |-> "details", place |-> Places[placeIndex + 1]])
    /\ pc' = "scrape.details.await"
    /\ UNCHANGED <<apiKey, allPlaces, nextPageToken, pageCount, placeIndex, leadResults>>
    /\ UNCHANGED verifyVars
    /\ UNCHANGED manualVars /\ UNCHANGED areaVars /\ UNCHANGED args
    /\ UNCHANGED storeVars /\ UNCHANGED normalizerVars /\ UNCHANGED organizationVars
    /\ UNCHANGED appVars

\* a rejected details request ends the loop
PlacesHandledAbort(outcome, handled, total) ==
    IF outcome = "THROW" THEN total ELSE handled

\* how many places are behind the loop once place number `handled` is done:
\* the catch inside the loop only logs, so the loop goes on with the next place
PlacesHandled(outcome, handled, total) == handled

\* the details request settles: a lead is pushed when the status is OK; a
\* rejection jumps to the catch inside the loop, past the delay
ReceiveDetails ==
    /\ pc = "scrape.details.await"
    /\ \E outcome \in DetailsOutcomes :
         /\ log' = Append(log, [type |-> "detailsAnswer", outcome |-> outcome])
         /\ leadResults' =
               IF outcome = "OK"
               THEN Append(leadResults,
                           placeLead(revision, Places[placeIndex + 1], Len(leadResults) + 1))
               ELSE leadResults
         /\ placeIndex' = PlacesHandled(outcome, placeIndex + 1, Len(Places))
         /\ pc' = IF outcome = "THROW" THEN "scrape.details" ELSE "scrape.details.delay"
    /\ UNCHANGED <<apiKey, allPlaces, nextPageToken, pageCount>>
    /\ UNCHANGED verifyVars
    /\ UNCHANGED manualVars /\ UNCHANGED areaVars /\ UNCHANGED args
    /\ UNCHANGED storeVars /\ UNCHANGED normalizerVars /\ UNCHANGED organizationVars
    /\ UNCHANGED appVars

\* await delay(100) ends
WaitAfterDetails ==
    /\ pc = "scrape.details.delay"
    /\ log' = Append(log, [type |-> "delay", ms |-> DetailsDelay])
    /\ pc' = "scrape.details"
    /\ UNCHANGED <<apiKey, allPlaces, nextPageToken, pageCount, placeIndex, leadResults>>
    /\ UNCHANGED verifyVars
    /\ UNCHANGED manualVars /\ UNCHANGED areaVars /\ UNCHANGED args
    /\ UNCHANGED storeVars /\ UNCHANGED normalizerVars /\ UNCHANGED organizationVars
    /\ UNCHANGED appVars

\* the route keeps the leads it answers with in the store
RespondScrapeStoring ==
    /\ pc = "scrape.details"
    /\ placeIndex >= Len(Places)
    /\ \E shouldEnrichWithApollo \in BOOLEAN, env \in ApolloEnvs :
         response' = ScrapeSuccess(revision, leadResults, shouldEnrichWithApollo, env)
    /\ scrapedLeads' = scrapedLeads \o leadResults
    /\ pc' = "responded"
    /\ UNCHANGED <<revision, lead, aiProvider, enrichedLead, rets, inflight, calls,
                   claudeResult, chatGPTResult>>
    /\ UNCHANGED manualVars /\ UNCHANGED areaVars /\ UNCHANGED args
    /\ UNCHANGED scrapeVars /\ UNCHANGED normalizerVars /\ UNCHANGED organizationVars
    /\ UNCHANGED appVars

\* return results, and res.json of the route
RespondScrape ==
    /\ pc = "scrape.details"
    /\ placeIndex >= Len(Places)
    /\ \E shouldEnrichWithApollo \in BOOLEAN, env \in ApolloEnvs :
         response' = ScrapeSuccess(revision, leadResults, shouldEnrichWithApollo, env)
    /\ pc' = "responded"
    /\ UNCHANGED <<revision, lead, aiProvider, enrichedLead, rets, inflight, calls,
                   claudeResult, chatGPTResult>>
    /\ UNCHANGED manualVars /\ UNCHANGED areaVars /\ UNCHANGED args
    /\ UNCHANGED scrapeVars /\ UNCHANGED storeVars /\ UNCHANGED normalizerVars /\ UNCHANGED organizationVars
    /\ UNCHANGED appVars

NextScrape ==
    \/ RejectScrape
    \/ ReceiveScrape
    \/ MissingKey
    \/ StartScrape
    \/ RequestPage
    \/ ReceivePage
    \/ WaitForToken
    \/ LoopCondition
    \/ FailScrape
    \/ ReturnNoPlaces
    \/ EnterDetailsLoop
    \/ RequestDetails
    \/ ReceiveDetails
    \/ WaitAfterDetails
    \/ RespondScrape

SpecScrape == Init /\ [][NextScrape]_vars

\* the handler runs to its answer when it is given the chance to
SpecScrapeFair == SpecScrape /\ WF_vars(NextScrape)

----------------------------------------------------------------------------
(* Properties of the pagination loop                                       *)

RECURSIVE CountEvents(_, _)
\* the number of events of one type in a log
CountEvents(events, type) ==
    IF events = << >> THEN 0
    ELSE (IF Head(events).type = type THEN 1 ELSE 0) + CountEvents(Tail(events), type)

RECURSIVE PlacesDelivered(_)
\* the number of raw candidates the page answers of a log delivered
PlacesDelivered(events) ==
    IF events = << >> THEN 0
    ELSE (IF Head(events).type = "page" THEN Head(events).count ELSE 0)
         + PlacesDelivered(Tail(events))

\* the last page answer of a log
LastPage(events) ==
    events[CHOOSE i \in DOMAIN events :
             /\ events[i].type = "page"
             /\ \A j \in DOMAIN events : events[j].type = "page" => j <= i]

\* this step sends a text-search request
SendsPageRequest ==
    /\ Len(log') = Len(log) + 1
    /\ log'[Len(log')].type = "textsearch"

\* C11: scrapeGoogleMaps sends at most 3 text-search requests; it sends no
\* further one once the candidates collected number at least maxLeads or the
\* last answer carried no continuation token; the loop comes to an end, and
\* at most maxLeads leads are returned.
PaginationBound ==
    /\ [](CountEvents(log, "textsearch") <= 3)
    /\ [][(SendsPageRequest /\ log # << >>) =>
            /\ PlacesDelivered(log) < Limit
            /\ LastPage(log).token]_vars
    /\ []((pc = "responded" /\ response.status = 200) => Len(response.results) <= Limit)
    /\ <>(pc = "responded")

\* three pages were fetched and the leads returned are cut to maxLeads
ThreePagesCutToMaxLeads ==
    /\ pc = "responded"
    /\ response.status = 200
    /\ CountEvents(log, "textsearch") = 3
    /\ PlacesDelivered(log) > Limit
    /\ Len(response.results) = Limit

\* C12: every text-search request that carries a pagetoken comes right after
\* a finished delay of at least 2000 ms, and that delay began after the
\* answer that delivered the token had arrived.
TokenDelay ==
    \A i \in DOMAIN log :
        (log[i].type = "textsearch" /\ log[i].pagetoken) =>
            /\ i >= 3
            /\ log[i - 1].type = "delay"
            /\ log[i - 1].ms >= 2000
            /\ log[i - 2].type = "page"
            /\ log[i - 2].token

\* a second and a third page were asked for with the token of the page before
TokensConsumed ==
    /\ pc = "responded"
    /\ Len(log) >= 8
    /\ log[4].type = "textsearch" /\ log[4].pagetoken
    /\ log[7].type = "textsearch" /\ log[7].pagetoken

\* the last text-search request of the call met a provider error: it was
\* rejected, or answered with a status other than OK and ZERO_RESULTS
LastPageErrored ==
    /\ CountEvents(log, "page") > 0
    /\ LastPage(log).status \notin {"OK", "ZERO_RESULTS"}

RECURSIVE CountAnswers(_, _)
\* the number of details answers with one outcome in a log
CountAnswers(events, outcome) ==
    IF events = << >> THEN 0
    ELSE (IF Head(events).type = "detailsAnswer" /\ Head(events).outcome = outcome
          THEN 1 ELSE 0) + CountAnswers(Tail(events), outcome)

\* C13: a provider error on a page request fails the whole call when nothing
\* was collected before; after at least one page with results it does not
\* fail the call, which returns the leads of the pages collected.
PartialResultDegradation ==
    (pc = "responded" /\ LastPageErrored) =>
        IF PlacesDelivered(log) = 0
        THEN response.status = 500
        ELSE /\ response.status = 200
             /\ CountEvents(log, "details") = Min(Limit, PlacesDelivered(log))
             /\ Len(response.results) = CountAnswers(log, "OK")

\* C14: without the places credential the call fails with an error that
\* names the missing key, and neither a text-search nor a details request
\* is sent.
MissingKeyFailsBeforeAnyRequest ==
    (~apiKey /\ pc # "idle") =>
        /\ log = << >>
        /\ pc \in {"scrape", "responded"}
        /\ pc = "responded" =>
             /\ response.status = 500
             /\ response.message =
                  "Failed to fetch data from Google Places API: Google Places API key not configured"

\* a call without the credential was answered
MissingKeyAnswered ==
    /\ pc = "responded"
    /\ ~apiKey
    /\ response.status = 500
    /\ log = << >>

RECURSIVE DetailsRequested(_)
\* the places the details requests of a log asked for, in the order asked
DetailsRequested(events) ==
    IF events = << >> THEN << >>
    ELSE (IF Head(events).type = "details" THEN <<Head(events).place>> ELSE << >>)
         \o DetailsRequested(Tail(events))

RECURSIVE DetailsSucceeded(_)
\* the places whose details request was answered with status OK, in the
\* order asked; every details request is followed by its answer
DetailsSucceeded(events) ==
    IF Len(events) < 2 THEN << >>
    ELSE IF Head(events).type = "details" /\ events[2].type = "detailsAnswer"
    THEN (IF events[2].outcome = "OK" THEN <<Head(events).place>> ELSE << >>)
         \o DetailsSucceeded(Tail(Tail(events)))
    ELSE DetailsSucceeded(Tail(events))

\* C20: a details request that throws or is answered with a status other
\* than OK yields no lead and does not end the loop: each of the first
\* min(maxLeads, collected) candidates gets exactly one details request, and
\* the leads returned are those of the candidates whose request succeeded,
\* in candidate order.
DetailLookupIsolation ==
    (pc = "responded" /\ response.status = 200) =>
        /\ DetailsRequested(log) = SubSeq(allPlaces, 1, Min(Limit, Len(allPlaces)))
        /\ Len(response.results) = Len(DetailsSucceeded(log))
        /\ \A i \in 1..Len(response.results) :
               response.results[i].placeId = DetailsSucceeded(log)[i]

\* a rejected and a refused details request came before one that succeeded
LeadAfterFailedLookups ==
    /\ pc = "responded"
    /\ response.status = 200
    /\ CountAnswers(log, "THROW") > 0
    /\ CountAnswers(log, "ERR") > 0
    /\ Len(response.results) > 0
    /\ log[Len(log) - 1].type = "detailsAnswer"
    /\ log[Len(log) - 1].outcome = "OK"
    /\ Len(DetailsSucceeded(log)) < Len(DetailsRequested(log))

\* the three normalized fields of a lead are as the normalizers leave them
NormalizedLead(l) ==
    /\ \/ l.phone = NAText
       \/ /\ DigitCount(l.phone) >= 7
          /\ \A i \in DOMAIN l.phone : l.phone[i] \in PhoneCharacters
    /\ \/ l.zipcode = NAText
       \/ /\ Len(l.zipcode) <= 15
          /\ ~MatchesAnyWord(l.zipcode, ZipcodeDenylist)
    /\ \/ l.address = NAText
       \/ cleanAddress(l.address) = l.address

\* C16: every lead the place search returns went through the normalizers:
\* its phone is 'N/A' or has at least 7 digits and only digits, spaces and
\* - ( ) . +, its zipcode is 'N/A' or has at most 15 characters and no
\* denylisted word, its address is 'N/A' or one cleanAddress accepts.
LeadsNormalized ==
    (pc = "responded" /\ response.status = 200) =>
        \A i \in 1..Len(response.results) : NormalizedLead(response.results[i])

----------------------------------------------------------------------------
(* Properties of the strategies of POST /api/enrich-manual                 *)

\* the strategy ran in this call
Attempted(name) == \E i \in DOMAIN log : log[i].type = "strategy" /\ log[i].name = name

\* no strategy that ran before the strategy `name` added a lead
NothingFoundBefore(name) ==
    \A i \in DOMAIN log :
        (log[i].type = "strategy" /\ log[i].name # name
           /\ (~Attempted(name) \/ \E j \in DOMAIN log : j > i /\ log[j].name = name))
        => log[i].found = 0

\* the position of a strategy in the fallback order
StrategyRank(name) == CASE name = "phone" -> 1 [] name = "address" -> 2 [] OTHER -> 3

\* the input of the address strategy was supplied
AddressSupplied ==
    \/ Truthy(Get(lead, "address"))
    \/ Truthy(Get(lead, "city")) /\ Truthy(Get(lead, "zipcode"))

\* C17: with the places credential set, the strategies of the manual
\* enrichment run in the order phone, address, company name, each only if its
\* input was supplied; the address and the company-name strategy run exactly
\* when their input was supplied and no earlier strategy found a candidate;
\* and when candidates were found searchMethod names the strategy that found
\* them.
ManualDiscoveryOrder ==
    (ManualAnswered /\ apiKey) =>
        /\ \A i, j \in DOMAIN log : i < j => StrategyRank(log[i].name) < StrategyRank(log[j].name)
        /\ Attempted("phone") => Filled(Get(lead, "phone"))
        /\ Attempted("address") <=> (AddressSupplied /\ NothingFoundBefore("address"))
        /\ Attempted("company_name") <=>
              (Filled(Get(lead, "companyName")) /\ NothingFoundBefore("company_name"))
        /\ Len(scrapedResults) > 0 =>
              \E i \in DOMAIN log :
                  /\ log[i].found > 0
                  /\ response.body.searchMethod = log[i].name

----------------------------------------------------------------------------
(* The store scrapedLeads and its routes                                   *)

\* app.get('/api/leads'): res.json({leads: scrapedLeads, count: scrapedLeads.length})
GetLeads ==
    /\ pc = "idle"
    /\ response' = [status |-> 200, leads |-> scrapedLeads, count |-> Len(scrapedLeads)]
    /\ pc' = "leads.sent"
    /\ UNCHANGED <<revision, lead, aiProvider, enrichedLead, rets, inflight, calls,
                   claudeResult, chatGPTResult>>
    /\ UNCHANGED manualVars /\ UNCHANGED areaVars /\ UNCHANGED args
    /\ UNCHANGED scrapeVars /\ UNCHANGED storeVars /\ UNCHANGED normalizerVars /\ UNCHANGED organizationVars
    /\ UNCHANGED appVars

\* app.delete('/api/leads'): scrapedLeads = []
DeleteLeads ==
    /\ pc = "idle"
    /\ scrapedLeads' = << >>
    /\ response' = [status |-> 200, message |-> "All leads cleared"]
    /\ pc' = "leads.cleared"
    /\ UNCHANGED <<revision, lead, aiProvider, enrichedLead, rets, inflight, calls,
                   claudeResult, chatGPTResult>>
    /\ UNCHANGED manualVars /\ UNCHANGED areaVars /\ UNCHANGED args
    /\ UNCHANGED scrapeVars /\ UNCHANGED normalizerVars /\ UNCHANGED organizationVars
    /\ UNCHANGED appVars

\* app.get('/api/stats'): totalLeads and verifiedLeads of the store
GetStats ==
    /\ pc = "idle"
    /\ response' = [status |-> 200, totalLeads |-> Len(scrapedLeads),
                    verifiedLeads |-> Cardinality({i \in DOMAIN scrapedLeads :
                                                     Truthy(Get(scrapedLeads[i], "verified"))})]
    /\ pc' = "stats.sent"
    /\ UNCHANGED <<revision, lead, aiProvider, enrichedLead, rets, inflight, calls,
                   claudeResult, chatGPTResult>>
    /\ UNCHANGED manualVars /\ UNCHANGED areaVars /\ UNCHANGED args
    /\ UNCHANGED scrapeVars /\ UNCHANGED storeVars /\ UNCHANGED normalizerVars /\ UNCHANGED organizationVars
    /\ UNCHANGED appVars

\* every route of the server
NextServer ==
    \/ Next
    \/ NextArea
    \/ NextManual
    \/ NextScrape
    \/ GetLeads
    \/ DeleteLeads
    \/ GetStats

SpecServer == Init /\ [][NextServer]_vars

\* the positions of the three routes of the store
StoreRoutes == {"leads.sent", "leads.cleared", "stats.sent"}

----------------------------------------------------------------------------
(* Pacing of the details requests                                          *)

\* C21: between any two consecutive details requests of a call a delay of
\* at least 100 ms has ended, whether the earlier request succeeded, was
\* answered with a status other than OK, or was rejected.
DetailPacing ==
    \A i, j \in DOMAIN log :
        (/\ i < j
         /\ log[i].type = "details"
         /\ log[j].type = "details"
         /\ \A k \in (i + 1)..(j - 1) : log[k].type # "details")
        => \E k \in (i + 1)..(j - 1) : log[k].type = "delay" /\ log[k].ms >= 100

----------------------------------------------------------------------------
(* The company-name strategy as the last resort                            *)

\* C28: with the places credential set and a company name supplied, when
\* neither the phone nor the address strategy added a candidate, for whatever
\* reason, a rejected request included, the company-name strategy has run
\* before the handler answers.
FallbackSurvivesFailure ==
    (/\ ManualAnswered
     /\ apiKey
     /\ Filled(Get(lead, "companyName"))
     /\ \A i \in DOMAIN log : log[i].name \in {"phone", "address"} => log[i].found = 0)
    => Attempted("company_name")

----------------------------------------------------------------------------
(* What the duplicate filter of POST /api/scrape-area drops                *)

\* C27: every lead of the concatenated polygon results is in the
\* deduplicated list unless an earlier lead of the concatenation has its
\* placeId, and a lead without a placeId is never dropped.
DedupDropsOnlyDuplicates ==
    (AreaAnswered /\ polygons > 0) =>
        LET unique == uniqueResults(allResults, {}) IN
        \A k \in 1..Len(allResults) :
            (\/ ~Truthy(allResults[k].placeId)
             \/ \A h \in 1..(k - 1) : allResults[h].placeId # allResults[k].placeId)
            => \E i \in 1..Len(unique) : unique[i] = allResults[k]

----------------------------------------------------------------------------
(* The density rule of cleanAddress                                        *)

IndustryNeverObject ==
    Verified =>
        /\ ~IsNull(claudeResult) => ~IsObject(Get(claudeResult, "industry"))
        /\ ~IsNull(chatGPTResult) => ~IsObject(Get(chatGPTResult, "industry"))
        /\ ~IsObject(Get(response.body, "industry"))

----------------------------------------------------------------------------
(* The match request of verifyWithYelp                                     *)

\* the match request went out in this call of /api/verify
MatchRequested == \E i \in DOMAIN log : log[i].type = "yelpmatch"

\* the answer the match request got
MatchOutcome(kind) ==
    \E i \in DOMAIN log : log[i].type = "yelpanswer" /\ log[i].outcome = kind

\* a field of the lead holds a value other than empty and 'N/A'
Known(l, k) == Get(l, k) \notin {Undefined, Null, "", NA}

\* C24: verifyWithYelp sends the match request only for a lead with a street
\* address, or a city and a state, or a phone (values other than empty and
\* 'N/A'); without any of the three it returns null and sends nothing; it
\* returns null when the credential is missing or the request failed, and an
\* object with yelpVerified = false when the search ran and found nothing.
YelpMatchRequest ==
    \A k \in DOMAIN rets :
        calls[k] = "yelp" =>
            LET l == args[k]
                signals == \/ Known(l, "address")
                           \/ Known(l, "city") /\ Known(l, "state")
                           \/ Known(l, "phone")
            IN /\ MatchRequested => signals
               /\ ~signals => IsNull(rets[k]) /\ ~MatchRequested
               /\ ~MatchRequested => IsNull(rets[k])
               /\ MatchOutcome("throw") => IsNull(rets[k])
               /\ MatchOutcome("nomatch") =>
                      /\ ~IsNull(rets[k])
                      /\ rets[k].yelpVerified = FALSE

\* C24 witness: a lead with a city but no state, no address and no phone
\* went to verifyWithYelp, which returned null without a request
YelpRefusedUnderSpecified ==
    \E k \in DOMAIN rets :
        /\ calls[k] = "yelp"
        /\ Known(args[k], "city")
        /\ ~Known(args[k], "state")
        /\ ~Known(args[k], "address")
        /\ ~Known(args[k], "phone")
        /\ IsNull(rets[k])
        /\ ~MatchRequested

----------------------------------------------------------------------------
(* POST /api/scrape with useApolloSearch: the organization search          *)

\* largest number of pages a target of the model needs
MaxPagesNeeded == 3

\* largest of the small targets
MaxSmallTarget == 3

\* Math.min(100, targetLeads)
MaxPerPage == 100

\* maxLeads || 25
DefaultTarget == 25

\* await delay(500) between two pages
OrganizationPageDelay == 500

\* maxLeads of the requests: absent (0), small, and around the multiples of
\* the page size
Targets ==
    0..MaxSmallTarget
    \cup {MaxPerPage * (k - 1) + 1 : k \in 2..MaxPagesNeeded}
    \cup {MaxPerPage * k : k \in 1..MaxPagesNeeded}

Queries == {"Acme", "plumbing companies", "companies"}

\* query.toLowerCase().includes('company') || ... || .includes('agency')
IsGenericQuery(query) == query \in {"plumbing companies", "companies"}

\* query.toLowerCase().replace(/companies|company|.../gi, '').trim()
QueryKeyword(query) ==
    CASE query = "plumbing companies" -> "plumbing"
      [] query = "companies" -> ""
      [] OTHER -> query

\* apolloFilters before the loop (location is 'Springfield', no zipcode)
InitialFilters(query) ==
    LET base == [locations |-> <<"Springfield">>] IN
    IF IsGenericQuery(query)
    THEN IF Truthy(QueryKeyword(query))
         THEN Spread(base, [keywords |-> <<QueryKeyword(query)>>])
         ELSE base
    ELSE Spread(base, [companyName |-> query])

\* const targetLeads = maxLeads || 25
targetLeads == IF maxLeads = 0 THEN DefaultTarget ELSE maxLeads

\* const leadsPerPage = Math.min(100, targetLeads)
leadsPerPage == Min(MaxPerPage, targetLeads)

\* const pagesNeeded = Math.ceil(targetLeads / leadsPerPage)
pagesNeeded == (targetLeads + leadsPerPage - 1) \div leadsPerPage

\* organizations of the provider's answer
OrganizationFull ==
    [name |-> "Acme Plumbing", phone |-> "555-0100", raw_address |-> "1 Main St",
     postal_code |-> "62701", city |-> "Springfield", country |-> "United States",
     state |-> "IL", industry |-> "construction", website_url |-> "https://www.acme.io"]
OrganizationBare == [name |-> "Acme Plumbing"]
Organizations == {OrganizationFull, OrganizationBare}

\* one element of (response.data.organizations || []).map(org => ({...}))
organizationLead(org, id) ==
    [id |-> id,
     companyName |-> Get(org, "name"),
     phone |-> Or(Get(org, "phone"), NA),
     address |-> Or(Get(org, "raw_address"), NA),
     zipcode |-> Or(Get(org, "postal_code"), NA),
     city |-> Or(Get(org, "city"), NA),
     country |-> Or(Get(org, "country"), NA),
     state |-> Or(Get(org, "state"), ""),
     industry |-> Or(Get(org, "industry"), "Business"),
     website |-> Or(Get(org, "website_url"), NA),
     source |-> "Apollo Organizations"]

\* what mixed_companies/search answers to a request for per_page
\* organizations: the request fails, or it delivers from none to per_page
\* organizations
OrganizationAnswers(perPage) ==
    {Throws}
    \cup {[kind |-> "ok", count |-> n, org |-> o] :
            n \in {0, 1, perPage - 1, perPage} \cap 0..perPage, o \in Organizations}

\* the leads searchApolloOrganizations returns for an answer
searchApolloOrganizations(answer, firstId) ==
    [i \in 1..answer.count |-> organizationLead(answer.org, firstId + i)]

\* filters[k] || preset, for a member that is a positive number when present
NumberOr(filters, k, preset) == IF k \in DOMAIN filters THEN filters[k] ELSE preset

\* requestBody.per_page = filters.perPage || 25
DefaultPerPage == 25

\* requestBody of searchApolloOrganizations
OrganizationRequest(filters) ==
    [type |-> "organizations",
     page |-> NumberOr(filters, "page", 1),
     per_page |-> NumberOr(filters, "perPage", DefaultPerPage),
     name |-> Get(filters, "companyName"),
     keywords |-> Get(filters, "keywords")]

\* the handler of the documented revision up to the loop
ReceiveOrganizationScrape ==
    /\ pc = "idle"
    /\ revision' = Documented
    /\ \E total \in Targets : maxLeads' = total
    /\ \E query \in Queries : apolloFilters' = InitialFilters(query)
    /\ searchSource' = "Apollo Search"
    /\ leadResults' = << >>
    /\ pageCount' = 1
    /\ pc' = "organizations"
    /\ UNCHANGED <<lead, aiProvider, enrichedLead, rets, inflight, calls,
                   claudeResult, chatGPTResult, response>>
    /\ UNCHANGED <<polygons, quotas, allResults>>
    /\ UNCHANGED <<apiKey, allPlaces, nextPageToken, placeIndex, log>>
    /\ UNCHANGED manualVars /\ UNCHANGED args
    /\ UNCHANGED storeVars /\ UNCHANGED normalizerVars /\ UNCHANGED appVars

\* page <= pagesNeeded && results.length < targetLeads
OrganizationLoopCondition == pageCount <= pagesNeeded /\ Len(leadResults) < targetLeads

\* apolloFilters.page = page; apolloFilters.perPage = leadsPerPage;
\* searchApolloOrganizations(apolloFilters) sends its request
RequestOrganizationPage ==
    /\ pc = "organizations"
    /\ OrganizationLoopCondition
    /\ apolloFilters' = Spread(apolloFilters, [page |-> pageCount, perPage |-> leadsPerPage])
    /\ log' = Append(log, OrganizationRequest(apolloFilters'))
    /\ pc' = "organizations.await"
    /\ UNCHANGED <<revision, lead, aiProvider, enrichedLead, rets, inflight, calls,
                   claudeResult, chatGPTResult, response>>
    /\ UNCHANGED areaVars
    /\ UNCHANGED <<apiKey, allPlaces, nextPageToken, pageCount, placeIndex, leadResults>>
    /\ UNCHANGED manualVars /\ UNCHANGED args /\ UNCHANGED searchSource
    /\ UNCHANGED storeVars /\ UNCHANGED normalizerVars /\ UNCHANGED appVars

\* the answer of a page: the results are concatenated; a short page breaks
\* the loop, a full one is followed by the delay when another page is due; a
\* failed request is caught by the handler
ReceiveOrganizationPage ==
    /\ pc = "organizations.await"
    /\ \E answer \in OrganizationAnswers(leadsPerPage) :
         IF answer.kind = "throw"
         THEN /\ log' = Append(log, [type |-> "organizationsAnswer", count |-> -1])
              /\ pc' = "organizations.failed"
              /\ UNCHANGED <<leadResults, pageCount>>
         ELSE LET pageResults == searchApolloOrganizations(answer, Len(leadResults))
                  results == leadResults \o pageResults
                  answered == Append(log, [type |-> "organizationsAnswer",
                                           count |-> Len(pageResults)])
              IN /\ leadResults' = results
                 /\ IF Len(pageResults) < leadsPerPage
                    THEN /\ pc' = "organizations.trim"
                         /\ log' = answered
                         /\ pageCount' = pageCount
                    ELSE /\ pc' = "organizations"
                         /\ pageCount' = pageCount + 1
                         /\ log' = IF pageCount < pagesNeeded /\ Len(results) < targetLeads
                                   THEN Append(answered, [type |-> "delay",
                                                          ms |-> OrganizationPageDelay])
                                   ELSE answered
    /\ UNCHANGED <<revision, lead, aiProvider, enrichedLead, rets, inflight, calls,
                   claudeResult, chatGPTResult, response>>
    /\ UNCHANGED areaVars
    /\ UNCHANGED <<apiKey, allPlaces, nextPageToken, placeIndex>>
    /\ UNCHANGED manualVars /\ UNCHANGED args /\ UNCHANGED organizationVars
    /\ UNCHANGED storeVars /\ UNCHANGED normalizerVars /\ UNCHANGED appVars

\* the loop condition fails
LeaveOrganizationLoop ==
    /\ pc = "organizations"
    /\ ~OrganizationLoopCondition
    /\ pc' = "organizations.trim"
    /\ UNCHANGED verifyVars /\ UNCHANGED areaVars /\ UNCHANGED scrapeVars
    /\ UNCHANGED manualVars /\ UNCHANGED args /\ UNCHANGED organizationVars
    /\ UNCHANGED storeVars /\ UNCHANGED normalizerVars /\ UNCHANGED appVars

\* the results are left as the loop collected them
TrimNothing(results) == results

\* results = results.slice(0, targetLeads)
TrimToTarget(results) == SubSeq(results, 1, Min(targetLeads, Len(results)))

\* if (results.length === 0 && apolloFilters.companyName)
NeedsKeywordSearch(results) ==
    Len(results) = 0 /\ Truthy(Get(apolloFilters, "companyName"))

\* delete apolloFilters.companyName; apolloFilters.keywords = [query];
\* apolloFilters.page = 1
KeywordFilters ==
    LET kept == [k \in DOMAIN apolloFilters \ {"companyName"} |-> apolloFilters[k]]
    IN Spread(kept, [keywords |-> <<Get(apolloFilters, "companyName")>>, page |-> 1])

\* the results are trimmed; an exact-name search without results is
\* repeated as a keyword search
TrimOrganizations ==
    /\ pc = "organizations.trim"
    /\ leadResults' = TrimToTarget(leadResults)
    /\ IF NeedsKeywordSearch(leadResults')
       THEN /\ apolloFilters' = KeywordFilters
            /\ log' = Append(log, OrganizationRequest(apolloFilters'))
            /\ pc' = "organizations.keyword"
       ELSE /\ pc' = "organizations.respond"
            /\ UNCHANGED <<apolloFilters, log>>
    /\ UNCHANGED verifyVars /\ UNCHANGED areaVars
    /\ UNCHANGED <<apiKey, allPlaces, nextPageToken, pageCount, placeIndex>>
    /\ UNCHANGED manualVars /\ UNCHANGED args /\ UNCHANGED searchSource
    /\ UNCHANGED storeVars /\ UNCHANGED normalizerVars /\ UNCHANGED appVars

\* results = await searchApolloOrganizations(apolloFilters) of the keyword search
ReceiveKeywordSearch ==
    /\ pc = "organizations.keyword"
    /\ \E answer \in OrganizationAnswers(NumberOr(apolloFilters, "perPage", DefaultPerPage)) :
         IF answer.kind = "throw"
         THEN /\ log' = Append(log, [type |-> "organizationsAnswer", count |-> -1])
              /\ pc' = "organizations.failed"
              /\ UNCHANGED leadResults
         ELSE /\ leadResults' = searchApolloOrganizations(answer, 0)
              /\ log' = Append(log, [type |-> "organizationsAnswer",
                                     count |-> answer.count])
              /\ pc' = "organizations.respond"
    /\ UNCHANGED verifyVars /\ UNCHANGED areaVars
    /\ UNCHANGED <<apiKey, allPlaces, nextPageToken, pageCount, placeIndex>>
    /\ UNCHANGED manualVars /\ UNCHANGED args /\ UNCHANGED organizationVars
    /\ UNCHANGED storeVars /\ UNCHANGED normalizerVars /\ UNCHANGED appVars

\* catch (apolloError): searchSource = 'Google Places (Apollo fallback)';
\* results = await scrapeGoogleMaps(query, location, null, zipcode, country,
\* maxLeads || 10); an error of scrapeGoogleMaps ends in the outer catch
OrganizationsFailed ==
    /\ pc = "organizations.failed"
    /\ searchSource' = "Google Places (Apollo fallback)"
    /\ \E world \in AreaWorlds :
         LET scraped == scrapeGoogleMaps(world, Limit, 1) IN
         IF scraped.ok
         THEN /\ leadResults' = scraped.leads
              /\ pc' = "organizations.respond"
              /\ response' = response
         ELSE /\ response' = ScrapeFailure(scraped.error)
              /\ pc' = "responded"
              /\ leadResults' = leadResults
    /\ UNCHANGED <<revision, lead, aiProvider, enrichedLead, rets, inflight, calls,
                   claudeResult, chatGPTResult>>
    /\ UNCHANGED areaVars
    /\ UNCHANGED <<apiKey, allPlaces, nextPageToken, pageCount, placeIndex, log>>
    /\ UNCHANGED manualVars /\ UNCHANGED args /\ UNCHANGED apolloFilters
    /\ UNCHANGED storeVars /\ UNCHANGED normalizerVars /\ UNCHANGED appVars

\* res.json({success: true, results: enrichedResults, count, searchSource, ...})
RespondOrganizations ==
    /\ pc = "organizations.respond"
    /\ response' = [status |-> 200, results |-> leadResults, count |-> Len(leadResults),
                    searchSource |-> searchSource, useApolloSearch |-> TRUE]
    /\ pc' = "responded"
    /\ UNCHANGED <<revision, lead, aiProvider, enrichedLead, rets, inflight, calls,
                   claudeResult, chatGPTResult>>
    /\ UNCHANGED areaVars /\ UNCHANGED scrapeVars
    /\ UNCHANGED manualVars /\ UNCHANGED args /\ UNCHANGED organizationVars
    /\ UNCHANGED storeVars /\ UNCHANGED normalizerVars /\ UNCHANGED appVars

NextOrganizations ==
    \/ ReceiveOrganizationScrape
    \/ RequestOrganizationPage
    \/ ReceiveOrganizationPage
    \/ LeaveOrganizationLoop
    \/ TrimOrganizations
    \/ ReceiveKeywordSearch
    \/ OrganizationsFailed
    \/ RespondOrganizations

SpecOrganizations == Init /\ [][NextOrganizations]_vars

----------------------------------------------------------------------------
(* Properties of the organization search                                   *)

\* a request of the exact-company-name search
NamedRequest(i) == log[i].type = "organizations" /\ log[i].name # Undefined

\* the request of the keyword fallback: a request without a company name
\* sent after one with a company name
KeywordFallback(i) ==
    /\ log[i].type = "organizations"
    /\ log[i].name = Undefined
    /\ \E h \in 1..(i - 1) : NamedRequest(h)

\* a request of the pagination loop
PageRequest(i) == log[i].type = "organizations" /\ ~KeywordFallback(i)

\* organizations delivered by the answers among the first i events
RECURSIVE Collected(_)
Collected(i) ==
    IF i = 0 THEN 0
    ELSE Collected(i - 1)
         + (IF log[i].type = "organizationsAnswer" /\ log[i].count > 0
            THEN log[i].count ELSE 0)

\* C25: with target T and page size p = min(100, T) the loop requests at
\* most ceil(T / p) pages, none after a page with fewer than p results and
\* none after T results were collected; the keyword fallback is requested at
\* most once and only after an exact-company-name search that delivered
\* nothing; and the list of a 200 response has at most T leads.
OrganizationPagination ==
    LET T == IF maxLeads = 0 THEN 25 ELSE maxLeads
        p == IF T < 100 THEN T ELSE 100
        ceiling == CHOOSE n \in 1..T : n * p >= T /\ (n - 1) * p < T
        pages == {i \in DOMAIN log : PageRequest(i)}
        fallbacks == {i \in DOMAIN log : KeywordFallback(i)}
        AnswersBefore(i) == {h \in 1..(i - 1) : log[h].type = "organizationsAnswer"}
    IN /\ Cardinality(pages) <= ceiling
       /\ \A i \in pages :
            /\ \A h \in AnswersBefore(i) : log[h].count = p
            /\ Collected(i) < T
            /\ log[i].per_page = p
       /\ Cardinality(fallbacks) <= 1
       /\ \A i \in fallbacks :
            /\ AnswersBefore(i) # {}
            /\ \A h \in AnswersBefore(i) : log[h].count = 0
            /\ \A h \in 1..(i - 1) : log[h].type = "organizations" => NamedRequest(h)
       /\ (pc = "responded" /\ response.status = 200) => Len(response.results) <= T

\* C25 witness: the pages of the loop delivered more than the target and
\* the response carries exactly the target
OrganizationsTrimmedToTarget ==
    /\ pc = "responded"
    /\ response.status = 200
    /\ searchSource = "Apollo Search"
    /\ Cardinality({i \in DOMAIN log : PageRequest(i)}) > 1
    /\ Collected(Len(log)) > targetLeads
    /\ Len(response.results) = targetLeads

----------------------------------------------------------------------------
(* The merges of /api/verify                                               *)

\* the fields of a lead that hold text
TextFields ==
    {"companyName", "ownerName", "email", "phone", "address", "zipcode", "city",
     "state", "country", "industry", "website"}

\* the handler is awaiting an adapter whose result it merges into the working lead
AwaitsMerge == pc \in {Await("apollo"), Await("pdl"), Await("hunter"), Await("yelp")}

\* C26: when the result of the organization enrichment, the owner search, the
\* e-mail finder or the review site is merged into the working lead, every
\* field that held a value other than empty and 'N/A' before the merge holds a
\* non-empty value after it; a
\* phone that was to be validated before the merge is still to be validated.
MergesKeepKnownData ==
    [][AwaitsMerge =>
          /\ \A k \in TextFields \cap DOMAIN enrichedLead :
                Known(enrichedLead, k) => Truthy(Get(enrichedLead', k))
          /\ ShouldValidatePhone(enrichedLead) => ShouldValidatePhone(enrichedLead')]_vars

----------------------------------------------------------------------------
(* App.js: the lists scrapedData and leads                                 *)

\* largest number of leads a scrape puts into scrapedData
MaxAppLeads == 3

\* a lead of data.results
ScrapedLead(i) ==
    [id |-> i, companyName |-> "Acme", phone |-> "555-0100",
     source |-> "Google Places API"]

\* l.id, with 0 standing for the undefined id of an object without one
IdOf(l) == IF "id" \in DOMAIN l THEN l.id ELSE 0

\* list.filter(l => l.id !== leadId)
RECURSIVE WithoutId(_, _)
WithoutId(list, leadId) ==
    IF list = << >> THEN << >>
    ELSE IF IdOf(Head(list)) # leadId
         THEN <<Head(list)>> \o WithoutId(Tail(list), leadId)
         ELSE WithoutId(Tail(list), leadId)

\* what fetch('/api/verify') and response.json() give for a lead: the
\* verified lead, the body of an error response, or a rejection
FetchAnswers(l) ==
    {[kind |-> "ok",
      body |-> Spread(l, [verified |-> TRUE, aiConfidence |-> 100,
                          aiSource |-> "Claude + ChatGPT"])],
     [kind |-> "error",
      body |-> [error |-> "Failed to verify lead", message |-> "timeout"]],
     [kind |-> "throw"]}

\* { ...enrichedLead, verified: true }
AsVerified(enrichedLead_) == Spread(enrichedLead_, [verified |-> TRUE])

\* the values a handler created in the current render closes over
Closure(fn, target) ==
    [fn |-> fn, target |-> target, scrapedData |-> scrapedData, leads |-> leads,
     i |-> 1, verifiedLeads |-> << >>]

\* handleScrape: setScrapedData(data.results || [])
handleScrape ==
    /\ pc = "idle"
    /\ ~isProcessing
    /\ scrapedData = << >> /\ leads = << >> /\ log = << >>
    /\ \E n \in 1..MaxAppLeads : scrapedData' = [i \in 1..n |-> ScrapedLead(i)]
    /\ UNCHANGED <<leads, isProcessing, closure, pc, log>>
    /\ UNCHANGED verifyVars /\ UNCHANGED manualVars /\ UNCHANGED areaVars
    /\ UNCHANGED <<apiKey, allPlaces, nextPageToken, pageCount, placeIndex, leadResults>>
    /\ UNCHANGED args /\ UNCHANGED storeVars /\ UNCHANGED normalizerVars
    /\ UNCHANGED organizationVars

\* a click on Verify: verifyWithAI(lead) up to its first await
verifyWithAIStart ==
    /\ pc = "idle"
    /\ ~isProcessing
    /\ \E i \in DOMAIN scrapedData : closure' = Closure("verifyWithAI", scrapedData[i])
    /\ isProcessing' = TRUE
    /\ pc' = "verifyWithAI"
    /\ log' = << [type |-> "start", fn |-> "verifyWithAI"] >>
    /\ UNCHANGED <<scrapedData, leads>>
    /\ UNCHANGED verifyVars /\ UNCHANGED manualVars /\ UNCHANGED areaVars
    /\ UNCHANGED <<apiKey, allPlaces, nextPageToken, pageCount, placeIndex, leadResults>>
    /\ UNCHANGED args /\ UNCHANGED storeVars /\ UNCHANGED normalizerVars
    /\ UNCHANGED organizationVars

\* the rest of verifyWithAI once fetch and response.json() settled
verifyWithAIDone ==
    /\ pc = "verifyWithAI"
    /\ \E answer \in FetchAnswers(closure.target) :
         IF answer.kind = "throw"
         THEN UNCHANGED <<scrapedData, leads>>
         ELSE /\ scrapedData' = WithoutId(closure.scrapedData, IdOf(closure.target))
              /\ leads' = <<AsVerified(answer.body)>> \o closure.leads
    /\ isProcessing' = FALSE
    /\ pc' = "idle"
    /\ log' = Append(log, [type |-> "done", fn |-> "verifyWithAI"])
    /\ UNCHANGED closure
    /\ UNCHANGED verifyVars /\ UNCHANGED manualVars /\ UNCHANGED areaVars
    /\ UNCHANGED <<apiKey, allPlaces, nextPageToken, pageCount, placeIndex, leadResults>>
    /\ UNCHANGED args /\ UNCHANGED storeVars /\ UNCHANGED normalizerVars
    /\ UNCHANGED organizationVars

\* a click on Verify All: verifyAllLeads up to its first await
verifyAllLeadsStart ==
    /\ pc = "idle"
    /\ ~isProcessing
    /\ Len(scrapedData) # 0
    /\ closure' = Closure("verifyAllLeads", scrapedData[1])
    /\ isProcessing' = TRUE
    /\ pc' = "verifyAllLeads"
    /\ log' = << [type |-> "start", fn |-> "verifyAllLeads"] >>
    /\ UNCHANGED <<scrapedData, leads>>
    /\ UNCHANGED verifyVars /\ UNCHANGED manualVars /\ UNCHANGED areaVars
    /\ UNCHANGED <<apiKey, allPlaces, nextPageToken, pageCount, placeIndex, leadResults>>
    /\ UNCHANGED args /\ UNCHANGED storeVars /\ UNCHANGED normalizerVars
    /\ UNCHANGED organizationVars

\* one turn of the loop of verifyAllLeads: the lead is fetched and pushed,
\* or the inner catch logs the error
verifyAllLeadsFetch ==
    /\ pc = "verifyAllLeads"
    /\ closure.i <= Len(closure.scrapedData)
    /\ \E answer \in FetchAnswers(closure.scrapedData[closure.i]) :
         closure' = [closure EXCEPT
                        !.i = @ + 1,
                        !.verifiedLeads = IF answer.kind = "throw" THEN @
                                          ELSE Append(@, AsVerified(answer.body))]
    /\ UNCHANGED <<scrapedData, leads, isProcessing, pc, log>>
    /\ UNCHANGED verifyVars /\ UNCHANGED manualVars /\ UNCHANGED areaVars
    /\ UNCHANGED <<apiKey, allPlaces, nextPageToken, pageCount, placeIndex, leadResults>>
    /\ UNCHANGED args /\ UNCHANGED storeVars /\ UNCHANGED normalizerVars
    /\ UNCHANGED organizationVars

\* setLeads([...verifiedLeads, ...leads]); setScrapedData([]) and the finally block
verifyAllLeadsDone ==
    /\ pc = "verifyAllLeads"
    /\ closure.i > Len(closure.scrapedData)
    /\ leads' = closure.verifiedLeads \o closure.leads
    /\ scrapedData' = << >>
    /\ isProcessing' = FALSE
    /\ pc' = "idle"
    /\ log' = Append(log, [type |-> "done", fn |-> "verifyAllLeads"])
    /\ UNCHANGED closure
    /\ UNCHANGED verifyVars /\ UNCHANGED manualVars /\ UNCHANGED areaVars
    /\ UNCHANGED <<apiKey, allPlaces, nextPageToken, pageCount, placeIndex, leadResults>>
    /\ UNCHANGED args /\ UNCHANGED storeVars /\ UNCHANGED normalizerVars
    /\ UNCHANGED organizationVars

\* a click on Reject: setScrapedData(scrapedData.filter(l => l.id !== leadId))
rejectLead ==
    /\ pc \in {"idle", "verifyWithAI", "verifyAllLeads"}
    /\ \E i \in DOMAIN scrapedData :
         /\ scrapedData' = WithoutId(scrapedData, IdOf(scrapedData[i]))
         /\ log' = Append(log, [type |-> "rejectLead", id |-> IdOf(scrapedData[i])])
    /\ UNCHANGED <<leads, isProcessing, closure, pc>>
    /\ UNCHANGED verifyVars /\ UNCHANGED manualVars /\ UNCHANGED areaVars
    /\ UNCHANGED <<apiKey, allPlaces, nextPageToken, pageCount, placeIndex, leadResults>>
    /\ UNCHANGED args /\ UNCHANGED storeVars /\ UNCHANGED normalizerVars
    /\ UNCHANGED organizationVars

\* a click on the bin of a verified lead:
\* setLeads(leads.filter(l => l.id !== leadId))
deleteLead ==
    /\ pc \in {"idle", "verifyWithAI", "verifyAllLeads"}
    /\ \E i \in DOMAIN leads :
         /\ leads' = WithoutId(leads, IdOf(leads[i]))
         /\ log' = Append(log, [type |-> "deleteLead", id |-> IdOf(leads[i])])
    /\ UNCHANGED <<scrapedData, isProcessing, closure, pc>>
    /\ UNCHANGED verifyVars /\ UNCHANGED manualVars /\ UNCHANGED areaVars
    /\ UNCHANGED <<apiKey, allPlaces, nextPageToken, pageCount, placeIndex, leadResults>>
    /\ UNCHANGED args /\ UNCHANGED storeVars /\ UNCHANGED normalizerVars
    /\ UNCHANGED organizationVars

NextApp ==
    \/ handleScrape
    \/ verifyWithAIStart
    \/ verifyWithAIDone
    \/ verifyAllLeadsStart
    \/ verifyAllLeadsFetch
    \/ verifyAllLeadsDone
    \/ rejectLead
    \/ deleteLead

SpecApp == Init /\ [][NextApp]_vars

----------------------------------------------------------------------------
(* Properties of the lists of App.js                                       *)

\* the verification handler fn ran to its end and nothing was started since
Completed(fn) ==
    /\ pc = "idle"
    /\ log # << >>
    /\ log[1].type = "start"
    /\ log[1].fn = fn
    /\ \E i \in DOMAIN log : log[i].type = "done"

\* the leads the user clicked away while the verification was in flight
ClickedAway(type) ==
    {log[i].id : i \in {k \in DOMAIN log :
                           /\ log[k].type = type
                           /\ \A h \in 1..k : log[h].type # "done"}}

\* the ids of the leads of a list
Ids(list) == {IdOf(list[i]) : i \in DOMAIN list}

\* C29: once verifyWithAI or verifyAllLeads has completed, a scraped lead
\* rejected while it was in flight is in neither scrapedData nor leads, and a
\* verified lead deleted while it was in flight is not in leads.
ClicksSurviveVerification ==
    (Completed("verifyWithAI") \/ Completed("verifyAllLeads")) =>
        /\ ClickedAway("rejectLead") \cap (Ids(scrapedData) \cup Ids(leads)) = {}
        /\ ClickedAway("deleteLead") \cap Ids(leads) = {}

\* C30: once verifyAllLeads has completed without a click in between, every
\* lead of the scrapedData it started with is in leads as a verified lead
\* with its id or still in scrapedData, and leads holds no error object.
VerifyAllConservesLeads ==
    (Completed("verifyAllLeads") /\ Len(log) = 2) =>
        /\ \A id \in Ids(closure.scrapedData) :
              \/ \E i \in DOMAIN leads :
                    IdOf(leads[i]) = id /\ "error" \notin DOMAIN leads[i]
              \/ id \in Ids(scrapedData)
        /\ \A i \in DOMAIN leads : "error" \notin DOMAIN leads[i]

====
